---- MODULE Spec2Model ----
(***************************************************************************)
(* Verification model of the NEURO ingestion service                       *)
(* (services/ingestion): circuit breaker, resilient HTTP executor,         *)
(* harvest coordinator and the pipeline service loop.                      *)
(*                                                                         *)
(* Time is counted in ticks of 10 s.  An Instant is modelled by the time   *)
(* elapsed since it was taken (the code only ever reads Instant::elapsed), *)
(* saturating at open_duration, the only value it is compared with.        *)
(***************************************************************************)
EXTENDS Integers, Sequences, FiniteSets, TLC

VARIABLES
    cb,                 \* CircuitBreaker of the source (circuit_breaker.rs:50-61)
    cb_pc,              \* per caller thread: position inside record_failure
    last_call,          \* history: the breaker call performed by the last step
    fails_since_success,\* history: record_failure calls since the last record_success / reset
    half_open_admitted, \* history: allow_request() = true since the breaker last changed state
    half_open_successes,\* history: record_success calls since the breaker entered HalfOpen
    half_open_lost,     \* history: the half-open successes the last step's record_failure found
    open_age,           \* history: ticks since the breaker last entered Open (saturating)
    opened_count,       \* history: number of transitions into Open
    semaphore,          \* ResilientHttpClient.semaphore: available permits
    ex_pc,              \* per execute() call: position in the function
    permit,             \* per call: whether it holds _permit
    attempt,            \* per call: the local `attempt`
    delay,              \* per call: the local `delay`, in ms
    outcome,            \* per call: what the last attempt came back with
    result,             \* per call: what execute() returned
    sent,               \* history: requests the call has put on the wire
    retried,            \* history: retryable answers the call has received
    mode,               \* which command runs: "none", "daemon", "pipeline"
    upstream,           \* the source's API: "flaky" or "healthy"
    hv_pc,              \* position of the harvest loop / pipeline main loop
    batch,              \* result.events of the fetch being processed
    idx,                \* index of the event the loop is at
    seen,               \* DedupStore.seen
    append_log,         \* entries the append log holds (by dedup key)
    checkpoint,         \* CheckpointManager.state for the source
    dirty,              \* CheckpointManager.dirty
    checkpoint_file,    \* checkpoint.json on disk
    queue,              \* items inside the pipeline, oldest first
    published,          \* per record: times it was published to the bus
    dedup_hits_total,   \* the dedup_hits_total metric of the source
    returned,           \* history: per record, times the source returned it
    suppressed,         \* history: records skipped as duplicates
    submitted,          \* history: records handed to pipeline.submit
    cycles,             \* history: fetch cycles started
    dd_tier,            \* how the DedupStore was built: "none", "memory", "redis"
    dd_redis,           \* the dedup:* keys Redis holds
    dd_task,            \* per task: the DedupStore call it is in, or made last
    marked,             \* history: the keys mark_seen was ever called with
    intact,             \* history: keys marked since the last eviction or clear()
    pp_cfg,             \* PipelineConfig the Pipeline was built with
    pp_q,               \* the bounded channels fetch .. publish
    pp_closed,          \* channels whose Receiver was dropped
    pp_pool,            \* worker pools and router: absent, running, stopping, stopped
    pp_work,            \* per stage: items held by spawned worker tasks
    pp_router,          \* the item the router is forwarding
    pp_shutdown,        \* shutdown was broadcast
    pp_sub,             \* the producer's submit call
    pp_ev,              \* per item: status and timestamps of its event
    pp_now,             \* Utc::now()
    pp_bus,             \* events the message bus accepted
    pp_done,            \* per item: how PublishStage::process ended
    backpressure_events_total,  \* backpressure_events_total{stage=fetch}
    pp_res,             \* history: what submit returned for each item
    pp_enq,             \* history: times an item entered the fetch channel
    pp_recv,            \* history: times the normalize pool received an item
    pp_at_signal,       \* history: items in a stage queue when shutdown was broadcast
    ck_sources,         \* CheckpointState.sources: one SourceCheckpoint per source
    ck_last_fetch_at,   \* last_fetch_at of each SourceCheckpoint
    ck_now,             \* Utc::now() as the checkpoint manager reads it
    ck_sum,             \* history: sum of the batch counts recorded per source
    ck_errs,            \* history: record_error calls since the last success
    ck_last_success,    \* history: cursor and count of the last record_success
    cf_pc,              \* the process: "none", "ready", inside save_to_file, "down"
    cf_fs,              \* the data directory: the file each path names
    cf_unsynced,        \* paths whose data has not reached the disk
    cf_state,           \* CheckpointManager.state
    cf_dirty,           \* CheckpointManager.dirty
    cf_now,             \* Utc::now()
    cf_next_sid,        \* the next uuid Uuid::new_v4() hands out
    cf_installed,       \* history: the canonical file before the first start
    cf_committed,       \* history: what the last finished rename put in place
    cf_last_save,       \* history: the state the last finished save() wrote
    cf_loaded,          \* history: the state is as new() built it
    cf_records,         \* history: record_success / record_error calls
    cf_restarts,        \* history: CheckpointManager::new calls
    sd_mode,            \* the command: "none", "daemon" or "pipeline"
    sd_signal,          \* Ctrl-C or SIGTERM was delivered
    sd_handler,         \* position of the shutdown handler task
    sd_running,         \* Harvester.running
    sd_task,            \* per harvester task: position in its loop, source index
    sd_main,            \* position of run_pipeline's main loop
    sd_proc,            \* the process: "running" or "terminated"
    sd_dirty,           \* CheckpointManager.dirty
    sd_mem,             \* record_success / record_error calls the state holds
    sd_file,            \* record calls the checkpoint file reflects
    sd_late_fetch,      \* history: a harvester called source.fetch with running = false
    append_failed,      \* history: an append_log.append of this cycle returned Err
    last_fetch,         \* history: how the cycle's source.fetch ended, until it is recorded
    sent_cursor,        \* history: FetchOptions.cursor of the cycle's source.fetch
    failed_cycles,      \* history: cycles in a row that ended in the Err arm
    sc_cfg,             \* HttpClientConfig the client was built with
    sc_pc,              \* position of the coordinator's cycle / of the caller of execute()
    sc_req,             \* the Request the caller built
    sc_wire,            \* history: the Request the last attempt put on the wire
    sc_tokens,          \* SourceHttpClient.rate_limiter: cells available
    sc_result,          \* what get / get_with_query returned
    ld_cfg,             \* PipelineConfig of the pipeline whose load is counted
    ld_q,               \* per channel: number of items it holds
    ld_held,            \* per pool / router: items received and not yet handed on
    ld_active,          \* per stage: worker tasks holding a permit
    pp_trace,           \* history, per item: the stages whose process took it, in order
    rp_pc,              \* ResilientPublisher::publish: position in the function
    rp_attempt,         \* the loop variable `attempt`
    rp_last_error,      \* the local `last_error`
    rp_result,          \* what publish returned: "none", the Ok result or "err"
    publish_total,      \* metric PUBLISH_TOTAL, by status label
    rp_calls,           \* history: bus.publish calls made for the event
    rp_waits,           \* history: the delays slept for the event, in ms
    rp_events,          \* history: how the publish of each earlier event ended
    as_dirty,           \* CheckpointManager.dirty
    as_last_save,       \* CheckpointManager.last_save
    as_now,             \* Utc::now, in ticks of 10 s
    as_state,           \* CheckpointManager.state: the record calls it holds
    as_file,            \* checkpoint.json: the record calls it holds
    as_call             \* history: the save call made by the last step

cbVars == <<cb, cb_pc, last_call, fails_since_success, half_open_admitted,
            half_open_successes, half_open_lost, open_age, opened_count>>

exVars == <<semaphore, ex_pc, permit, attempt, delay, outcome, result, sent, retried>>

cbHist == <<cb_pc, last_call, fails_since_success, half_open_admitted,
            half_open_successes, half_open_lost, open_age, opened_count>>

svcVars == <<mode, upstream, hv_pc, batch, idx, seen, append_log, checkpoint, dirty,
             checkpoint_file, queue, published, dedup_hits_total, returned,
             suppressed, submitted, cycles>>

svcRest == <<mode, upstream, hv_pc, batch, idx, append_log, checkpoint, dirty,
             checkpoint_file, queue, published, dedup_hits_total, returned,
             suppressed, submitted, cycles>>

ddVars == <<dd_tier, dd_redis, dd_task, marked, intact>>

ppVars == <<pp_cfg, pp_q, pp_closed, pp_pool, pp_work, pp_router, pp_shutdown,
            pp_sub, pp_ev, pp_now, pp_bus, pp_done, backpressure_events_total,
            pp_res, pp_enq, pp_recv, pp_at_signal>>

ckVars == <<ck_sources, ck_last_fetch_at, ck_now, ck_sum, ck_errs, ck_last_success>>

cfVars == <<cf_pc, cf_fs, cf_unsynced, cf_state, cf_dirty, cf_now, cf_next_sid,
            cf_installed, cf_committed, cf_last_save, cf_loaded,
            cf_records, cf_restarts>>

sdVars == <<sd_mode, sd_signal, sd_handler, sd_running, sd_task, sd_main, sd_proc,
            sd_dirty, sd_mem, sd_file, sd_late_fetch>>

hvVars == <<append_failed, last_fetch, sent_cursor, failed_cycles>>

scVars == <<sc_cfg, sc_pc, sc_req, sc_wire, sc_tokens, sc_result>>

ldVars == <<ld_cfg, ld_q, ld_held, ld_active>>

rpVars == <<rp_pc, rp_attempt, rp_last_error, rp_result, publish_total, rp_calls, rp_waits, rp_events>>

asVars == <<as_dirty, as_last_save, as_now, as_state, as_file, as_call>>

lateVars == <<scVars, ldVars, pp_trace, rpVars, asVars>>

extRest == <<ddVars, ppVars, ckVars, cfVars, sdVars, lateVars>>

extVars == <<ddVars, ppVars, ckVars, cfVars, sdVars, hvVars, lateVars>>

vars == <<cb, cb_pc, last_call, fails_since_success, half_open_admitted,
          half_open_successes, half_open_lost, open_age, opened_count,
          semaphore, ex_pc, permit, attempt, delay, outcome, result, sent, retried,
          mode, upstream, hv_pc, batch, idx, seen, append_log, checkpoint, dirty,
          checkpoint_file, queue, published, dedup_hits_total, returned,
          suppressed, submitted, cycles,
          dd_tier, dd_redis, dd_task, marked, intact,
          pp_cfg, pp_q, pp_closed, pp_pool, pp_work, pp_router, pp_shutdown,
          pp_sub, pp_ev, pp_now, pp_bus, pp_done, backpressure_events_total,
          pp_res, pp_enq, pp_recv, pp_at_signal,
          ck_sources, ck_last_fetch_at, ck_now, ck_sum, ck_errs, ck_last_success,
          cf_pc, cf_fs, cf_unsynced, cf_state, cf_dirty, cf_now, cf_next_sid,
          cf_installed, cf_committed, cf_last_save, cf_loaded,
          cf_records, cf_restarts,
          sd_mode, sd_signal, sd_handler, sd_running, sd_task, sd_main, sd_proc,
          sd_dirty, sd_mem, sd_file, sd_late_fetch,
          append_failed, last_fetch, sent_cursor, failed_cycles,
          sc_cfg, sc_pc, sc_req, sc_wire, sc_tokens, sc_result,
          ld_cfg, ld_q, ld_held, ld_active, pp_trace,
          rp_pc, rp_attempt, rp_last_error, rp_result, publish_total, rp_calls, rp_waits, rp_events,
          as_dirty, as_last_save, as_now, as_state, as_file, as_call>>

(***************************************************************************)
(* Configuration and bounds                                                *)
(***************************************************************************)
failure_threshold == 3
open_duration == 3
success_threshold == 3
half_open_max_requests == 3

NumCallers == 2
MaxCount == 4

Callers == 1..NumCallers

None == <<>>
Some(x) == <<x>>

Min(a, b) == IF a < b THEN a ELSE b

\* AtomicU64 statistics counters; the model stops counting at MaxCount.
Inc(n) == IF n < MaxCount THEN n + 1 ELSE n

(***************************************************************************)
(* Circuit breaker (circuit_breaker.rs)                                    *)
(***************************************************************************)
NewCircuitBreaker ==
    [state |-> "Closed", failure_count |-> 0, success_count |-> 0,
     half_open_requests |-> 0, last_failure_time |-> None,
     total_failures |-> 0, total_successes |-> 0, trips |-> 0]

\* last_failure.elapsed() >= open_duration
OpenDurationElapsed(c) ==
    c.last_failure_time # None /\ c.last_failure_time[1] >= open_duration

TryHalfOpenRequestOffByOne(c) ==
    LET current == c.half_open_requests
        added == [c EXCEPT !.half_open_requests = current + 1]
    IN  IF current <= half_open_max_requests
            THEN [cb |-> added, ok |-> TRUE]
            ELSE [cb |-> [added EXCEPT !.half_open_requests = @ - 1], ok |-> FALSE]

\* fetch_add(1) returns the previous value; the increment is undone on refusal.
TryHalfOpenRequest(c) ==
    LET current == c.half_open_requests
        added == [c EXCEPT !.half_open_requests = current + 1]
    IN  IF current < half_open_max_requests
            THEN [cb |-> added, ok |-> TRUE]
            ELSE [cb |-> [added EXCEPT !.half_open_requests = @ - 1], ok |-> FALSE]

AllowRequest(c) ==
    CASE c.state = "Closed" -> [cb |-> c, ok |-> TRUE]
      [] c.state = "Open" ->
            IF OpenDurationElapsed(c)
                THEN TryHalfOpenRequest([c EXCEPT !.state = "HalfOpen",
                                                  !.half_open_requests = 0,
                                                  !.success_count = 0])
                ELSE [cb |-> c, ok |-> FALSE]
      [] c.state = "HalfOpen" -> TryHalfOpenRequest(c)

RecordSuccessLateClose(c) ==
    LET counted == [c EXCEPT !.total_successes = Inc(@)]
    IN  CASE c.state = "Closed" -> [counted EXCEPT !.failure_count = 0]
          [] c.state = "HalfOpen" ->
                LET successes == c.success_count + 1
                IN  IF successes > success_threshold
                        THEN [counted EXCEPT !.state = "Closed",
                                             !.failure_count = 0,
                                             !.success_count = 0]
                        ELSE [counted EXCEPT !.success_count = successes]
          [] c.state = "Open" ->
                [counted EXCEPT !.state = "Closed", !.failure_count = 0]

RecordSuccess(c) ==
    LET counted == [c EXCEPT !.total_successes = Inc(@)]
    IN  CASE c.state = "Closed" -> [counted EXCEPT !.failure_count = 0]
          [] c.state = "HalfOpen" ->
                LET successes == c.success_count + 1
                IN  IF successes >= success_threshold
                        THEN [counted EXCEPT !.state = "Closed",
                                             !.failure_count = 0,
                                             !.success_count = 0]
                        ELSE [counted EXCEPT !.success_count = successes]
          [] c.state = "Open" ->
                [counted EXCEPT !.state = "Closed", !.failure_count = 0]

\* record_failure, before the state lock is taken (lines 203-204).
RecordFailureStamp(c) ==
    [c EXCEPT !.total_failures = Inc(@), !.last_failure_time = Some(0)]

RecordFailureLockedKeepingSuccesses(c) ==
    CASE c.state = "Closed" ->
            LET failures == c.failure_count + 1
            IN  IF failures >= failure_threshold
                    THEN [c EXCEPT !.failure_count = failures, !.state = "Open",
                                   !.trips = Inc(@)]
                    ELSE [c EXCEPT !.failure_count = failures]
      [] c.state = "HalfOpen" ->
            [c EXCEPT !.state = "Open", !.trips = Inc(@)]
      [] c.state = "Open" -> c

RecordFailureLockedEarlyOpen(c) ==
    CASE c.state = "Closed" ->
            LET failures == c.failure_count + 1
            IN  IF failures + 1 >= failure_threshold
                    THEN [c EXCEPT !.failure_count = failures, !.state = "Open",
                                   !.trips = Inc(@)]
                    ELSE [c EXCEPT !.failure_count = failures]
      [] c.state = "HalfOpen" ->
            [c EXCEPT !.state = "Open", !.trips = Inc(@), !.success_count = 0]
      [] c.state = "Open" -> c

\* record_failure, under the state lock (lines 206-243).
RecordFailureLocked(c) ==
    CASE c.state = "Closed" ->
            LET failures == c.failure_count + 1
            IN  IF failures >= failure_threshold
                    THEN [c EXCEPT !.failure_count = failures, !.state = "Open",
                                   !.trips = Inc(@)]
                    ELSE [c EXCEPT !.failure_count = failures]
      [] c.state = "HalfOpen" ->
            [c EXCEPT !.state = "Open", !.trips = Inc(@), !.success_count = 0]
      [] c.state = "Open" -> c

RecordFailure(c) == RecordFailureLocked(RecordFailureStamp(c))

Trip(c) ==
    IF c.state # "Open"
        THEN [c EXCEPT !.state = "Open", !.last_failure_time = Some(0),
                       !.trips = Inc(@)]
        ELSE c

Reset(c) ==
    [c EXCEPT !.state = "Closed", !.failure_count = 0, !.success_count = 0,
              !.half_open_requests = 0]

\* One tick of time: every stored Instant gets one tick older.
Older(c) ==
    IF c.last_failure_time = None
        THEN c
        ELSE [c EXCEPT !.last_failure_time = Some(Min(@[1] + 1, open_duration))]

(***************************************************************************)
(* History variables of the breaker, updated the same way by every step    *)
(* that replaces the breaker c by d.                                       *)
(***************************************************************************)
EnteredOpen(c, d) == c.state # "Open" /\ d.state = "Open"

CbHistory(c, d, call) ==
    /\ last_call' = call
    /\ fails_since_success' =
            IF call.op = "record_failure" THEN Min(fails_since_success + 1, MaxCount + 1)
            ELSE IF call.op \in {"record_success", "reset"} THEN 0
            ELSE fails_since_success
    /\ half_open_admitted' =
            IF d.state # c.state
                THEN (IF call.op = "allow_request" /\ call.ret THEN 1 ELSE 0)
                ELSE IF call.op = "allow_request" /\ call.ret /\ c.state = "HalfOpen"
                    THEN half_open_admitted + 1
                    ELSE half_open_admitted
    /\ half_open_successes' =
            IF d.state # c.state THEN 0
            ELSE IF call.op = "record_success" /\ c.state = "HalfOpen"
                THEN half_open_successes + 1
                ELSE half_open_successes
    /\ half_open_lost' =
            IF call.op = "record_failure" /\ c.state = "HalfOpen"
                THEN half_open_successes
                ELSE 0
    /\ open_age' =
            IF EnteredOpen(c, d) THEN 0
            ELSE IF call.op = "tick" THEN Min(open_age + 1, open_duration)
            ELSE open_age
    /\ opened_count' = IF EnteredOpen(c, d) THEN Inc(opened_count) ELSE opened_count

\* A breaker call: its name, what it returned (allow_request), the state it found.
Call(op, ret, from) == [op |-> op, ret |-> ret, from |-> from]

(***************************************************************************)
(* Resilient HTTP executor (http_client.rs)                                *)
(***************************************************************************)
max_concurrent_requests == 2
max_retries == 3
initial_retry_delay == 500
max_retry_delay == 30000

\* The sources whose adapters share the one ResilientHttpClient
\* (harvester.rs:112-146); each has at most one execute() call at a time.
HttpSources == {"newsapi", "cryptopanic", "x_api"}

Statuses == {200, 401, 404, 408, 429, 500, 502, 503, 504}
TransportErrors == {"timeout", "connect", "other"}

Status(code) == [kind |-> "status", code |-> code]
Transport(kind) == [kind |-> kind, code |-> 0]
NoOutcome == [kind |-> "none", code |-> 0]
Outcomes == {Status(s) : s \in Statuses} \cup {Transport(e) : e \in TransportErrors}

IsSuccessAbove200(code) == 200 < code /\ code <= 299

\* StatusCode::is_success
IsSuccess(code) == 200 <= code /\ code <= 299

IsRetryableStatus(code) == code \in {429, 503, 504, 502, 408}

\* e.is_timeout() || e.is_connect()
IsTransient(kind) == kind \in {"timeout", "connect"}

ShouldRetryOnceMore(o, n) ==
    /\ n <= max_retries + 1
    /\ \/ o.kind = "status" /\ ~IsSuccess(o.code) /\ IsRetryableStatus(o.code)
       \/ o.kind # "status" /\ IsTransient(o.kind)

\* The two `else if` / `if` conditions that lead to the sleep (lines 151, 173).
ShouldRetry(o, n) ==
    /\ n <= max_retries
    /\ \/ o.kind = "status" /\ ~IsSuccess(o.code) /\ IsRetryableStatus(o.code)
       \/ o.kind # "status" /\ IsTransient(o.kind)

\* What execute() returns for a terminal outcome (lines 150, 166, 184).
Returned(o) ==
    IF o.kind = "status"
        THEN (IF IsSuccess(o.code) THEN "Ok" ELSE "ApiError")
        ELSE "HttpError"

KeepPermitOnError(c, res) == IF res = "Ok" THEN FALSE ELSE permit[c]

\* Whether the call still holds its permit once it has ended with res:
\* _permit is dropped on every way out of the function.
PermitAfterEnd(c, res) == FALSE

\* The call ends: result recorded, permit dropped.
End(c, res) ==
    /\ result' = [result EXCEPT ![c] = res]
    /\ ex_pc' = [ex_pc EXCEPT ![c] = "done"]
    /\ permit' = [permit EXCEPT ![c] = PermitAfterEnd(c, res)]
    /\ semaphore' = IF permit[c] /\ ~PermitAfterEnd(c, res)
                        THEN semaphore + 1 ELSE semaphore

(***************************************************************************)
(* SourceHttpClient (http_client.rs): the gate in front of execute(), and  *)
(* the Request as the caller builds it and as execute() sends it.          *)
(***************************************************************************)
rate_limit_rpm == 2
MaxMultiplier == 3

\* HttpClientConfig: retry_multiplier is the field the callers vary.
HttpClientConfigs == {[retry_multiplier |-> m] : m \in 1..MaxMultiplier}

\* reqwest::Request: method, URL (with its query string), headers, body.
Request(method, query, headers, body) ==
    [method |-> method, url |-> <<"endpoint", query>>, headers |-> headers,
     body |-> body]

\* What a caller of the public execute(request) can hand over.
Requests ==
    {Request(m, None, h, b) : m \in {"GET", "POST"}, h \in {{}, {"X-API-Key"}},
                              b \in {None, Some("json")}}

\* client.inner().get(url).build() / .get(url).query(query).build()
GetRequest(query) == Request("GET", query, {}, None)

RequestOfAttemptAsGiven(request) == request

\* self.client.request(method.clone(), &url).build(): the request of an
\* attempt is made from the method and the URL of the one passed in.
RequestOfAttempt(request) == Request(request.method, request.url[2], {}, None)

ProtectionEntryCountingRefusals(c) ==
    LET a == AllowRequest(c)
    IN  IF a.ok THEN [cb |-> a.cb, admitted |-> TRUE, result |-> "none"]
        ELSE [cb |-> RecordFailure(a.cb), admitted |-> FALSE,
              result |-> "CircuitBreakerOpen"]

\* execute_with_protection up to its first await: the breaker is asked, and
\* a refusal is returned as CircuitBreakerOpen(source_id).
ProtectionEntry(c) ==
    LET a == AllowRequest(c)
    IN  [cb |-> a.cb, admitted |-> a.ok,
         result |-> IF a.ok THEN "none" ELSE "CircuitBreakerOpen"]

\* What the upstream answers in the client's runs.
ScOutcomes == {Status(200), Status(404), Status(503), Transport("connect")}

RECURSIVE Pow(_, _)
Pow(b, e) == IF e = 0 THEN 1 ELSE b * Pow(b, e - 1)

\* The documented backoff: min(initial * multiplier^(n-1), max_delay).
Backoff(cfg, n) ==
    Min(initial_retry_delay * Pow(cfg.retry_multiplier, n - 1), max_retry_delay)

(***************************************************************************)
(* ResilientPublisher (message_bus/mod.rs) as Pipeline::new builds it.     *)
(***************************************************************************)
publisher_max_retries == 3
retry_delay == 100
MaxPublishes == 3

\* What bus.publish can come back with: Ok(result) with success true or
\* false, or Err.
BusAnswers == {"success", "unsuccessful", "error"}

RetriesLeftOneMore(n) == n <= publisher_max_retries

\* `if attempt < self.max_retries`: another pass of `for attempt in
\* 0..=self.max_retries` follows, after a sleep.
RetriesLeft(n) == n < publisher_max_retries

\* self.retry_delay * (attempt + 1)
PublishRetryDelay(n) == retry_delay * (n + 1)

(***************************************************************************)
(* CheckpointManager's save policy (checkpoint.rs): dirty, last_save and   *)
(* auto_save_interval, in ticks of 10 s.                                   *)
(***************************************************************************)
auto_save_interval == 3
MaxClock == 5
MaxUpdates == 3

\* A save call: which one, whether it went into save_to_file, and how that
\* ended.
SaveCall(op, wrote, ok) == [op |-> op, wrote |-> wrote, ok |-> ok]
NoSaveCall == SaveCall("none", FALSE, FALSE)

MaybeSaveDueWhenDirtyOnly(is_dirty, now, saved_at) == is_dirty

\* self.dirty && (Utc::now() - self.last_save) >= self.auto_save_interval
MaybeSaveDue(is_dirty, now, saved_at) ==
    is_dirty /\ now - saved_at >= auto_save_interval

\* save_on_shutdown: `if self.dirty`
ShutdownSaveDue(is_dirty) == is_dirty

(***************************************************************************)
(* Harvest coordinator, dedup store, checkpoint and pipeline loop          *)
(* (harvester.rs, dedup.rs, checkpoint.rs, main.rs, pipeline/mod.rs).      *)
(* One source, newsapi, is configured.                                     *)
(***************************************************************************)
fetch_limit == 2
max_entries == 2
channel_capacity == 1
MaxTally == 2
MaxCycles == 4

\* The records the source has, named by their deduplication_key.
Records == {"a"}

\* What one fetch can return: at most fetch_limit events (pageSize), the
\* same record possibly more than once.
Batches == UNION {[1..n -> Records] : n \in 0..fetch_limit}

Elements(evs) == {evs[i] : i \in 1..Len(evs)}

Tally(n) == Min(n + 1, MaxTally)

\* What the API does with one request.
Response(kind, evs) == [kind |-> kind, events |-> evs]
Responses(up) ==
    {Response("ok", b) : b \in Batches}
        \cup (IF up = "healthy" THEN {}
              ELSE {Response("http_error", <<>>), Response("bad_body", <<>>)})

\* SourceCheckpoint.  `past` stands for last_fetch_at: the records returned
\* by the fetches the checkpoint has been moved past.
NewCheckpoint ==
    [exists |-> FALSE, cursor |-> None, last_batch_count |-> 0,
     total_items_fetched |-> 0, last_error |-> FALSE, error_count |-> 0,
     past |-> {}]

CheckpointRecordSuccessKeepingErrors(cp, evs, next_cursor) ==
    [exists |-> TRUE, cursor |-> next_cursor, last_batch_count |-> Len(evs),
     total_items_fetched |-> Min(cp.total_items_fetched + Len(evs), MaxCount),
     last_error |-> FALSE, error_count |-> cp.error_count,
     past |-> cp.past \cup Elements(evs)]

CheckpointRecordSuccess(cp, evs, next_cursor) ==
    [exists |-> TRUE, cursor |-> next_cursor, last_batch_count |-> Len(evs),
     total_items_fetched |-> Min(cp.total_items_fetched + Len(evs), MaxCount),
     last_error |-> FALSE, error_count |-> 0,
     past |-> cp.past \cup Elements(evs)]

CheckpointRecordError(cp) ==
    [cp EXCEPT !.exists = TRUE, !.last_error = TRUE, !.error_count = Inc(@)]

\* fetch_internal: no cursor is passed in, so the current page is 1.
NextCursor(evs) == IF Len(evs) >= fetch_limit THEN Some(2) ELSE None

\* DedupStore without the Redis tier, as Harvester::new builds it.
IsDuplicate(s, k) == k \in s

MarkSeenEvictWhenOver(s, k) ==
    (IF Cardinality(s) > max_entries THEN {} ELSE s) \cup {k}

MarkSeenInsertThenEvict(s, k) ==
    IF Cardinality(s \cup {k}) >= max_entries THEN {} ELSE s \cup {k}

MarkSeen(s, k) == (IF Cardinality(s) >= max_entries THEN {} ELSE s) \cup {k}

CheckAndMark(s, k) ==
    IF IsDuplicate(s, k) THEN [dup |-> TRUE, seen |-> s]
    ELSE [dup |-> FALSE, seen |-> MarkSeen(s, k)]

\* source.fetch through SourceHttpClient::execute_with_protection: the
\* client asks the breaker, sends, and records the HTTP outcome; the
\* adapter then parses the body.
SourceFetch(c, resp) ==
    LET a == AllowRequest(c)
    IN  IF ~a.ok THEN [cb |-> a.cb, ok |-> FALSE, events |-> <<>>]
        ELSE IF resp.kind = "http_error"
            THEN [cb |-> RecordFailure(a.cb), ok |-> FALSE, events |-> <<>>]
        ELSE IF resp.kind = "bad_body"
            THEN [cb |-> RecordSuccess(a.cb), ok |-> FALSE, events |-> <<>>]
        ELSE [cb |-> RecordSuccess(a.cb), ok |-> TRUE, events |-> resp.events]

Returned2(evs) ==
    [r \in Records |->
        Min(returned[r] + Cardinality({i \in 1..Len(evs) : evs[i] = r}), MaxTally)]

\* After construction: Harvester::new builds the breaker (CircuitBreaker::new)
\* and the shared client (ResilientHttpClient::new); nothing is in flight.
(***************************************************************************)
(* The dedup store on its own (dedup.rs): keys, their stored form, and the *)
(* tasks that share one store.  Strings are sequences of tokens.           *)
(***************************************************************************)
\* The harvest tasks that hold a clone of the Arc<DedupStore>.
DdTasks == {"news", "social"}

\* DedupKey values: one content with and without a canonical URL, and a
\* second content.
DedupKeys ==
    { [source |-> <<"newsapi">>, content_hash |-> <<"h1">>, canonical_url |-> None],
      [source |-> <<"newsapi">>, content_hash |-> <<"h1">>, canonical_url |-> Some(<<"u1">>)],
      [source |-> <<"newsapi">>, content_hash |-> <<"h2">>, canonical_url |-> None] }

CombinedKeyWithoutUrl(k) == k.source \o <<":">> \o k.content_hash

\* DedupKey::combined_key: "{source}:{hash}:{url}" or "{source}:{hash}".
CombinedKey(k) ==
    IF k.canonical_url # None
    THEN k.source \o <<":">> \o k.content_hash \o <<":">> \o k.canonical_url[1]
    ELSE k.source \o <<":">> \o k.content_hash

\* check_redis / add_to_redis: the Redis key is "dedup:{key}".
RedisKey(combined) == <<"dedup", ":">> \o combined

\* What the two Redis commands can answer.
RedisReplies == {"ok", "err"}

DdOps == {"check_and_mark", "is_duplicate", "mark_seen"}

\* A task that is in no DedupStore call and has made none.  flushed: the set
\* was evicted or cleared since the call began.
DdIdle == [pc |-> "idle", op |-> "none", key |-> None, ret |-> FALSE, flushed |-> FALSE]

(***************************************************************************)
(* The staged pipeline (pipeline/mod.rs, worker.rs, stages.rs): channels,  *)
(* wiring and what each stage does to an event.                            *)
(***************************************************************************)
MaxNow == 1

\* One item more than the fetch channel holds.
NumItems == channel_capacity + 1

\* The items the producer submits, in this order.
PpItems == 1..NumItems

\* The channels Pipeline::new creates.
PpQueues == {"fetch", "normalize", "enrich", "embed", "publish"}

\* The stages that get a worker pool.
PpStages == {"normalize", "enrich", "embed", "publish"}

\* The tasks spawn_workers can spawn.
PpPools == PpStages \cup {"router"}

\* PipelineConfig before Pipeline::new has run.
PpNoConfig == [built |-> FALSE, enable_enrich |-> FALSE, enable_embed |-> FALSE]

\* spawn_workers: the Receiver each pool reads.
InQ(s) == IF s = "normalize" THEN "fetch" ELSE s

NextAfterNormalizeAlwaysEnrich(cfg) == "enrich"

\* spawn_workers: where the router forwards the normalize output.
NextAfterNormalize(cfg) ==
    IF cfg.enable_enrich THEN "enrich"
    ELSE IF cfg.enable_embed THEN "embed"
    ELSE "publish"

OutQEnrichToPublish(s, cfg) ==
    IF s = "normalize" THEN "normalize" ELSE "publish"

\* spawn_workers: the Sender each pool writes.
OutQ(s, cfg) ==
    IF s = "normalize" THEN "normalize"
    ELSE IF s = "enrich" THEN (IF cfg.enable_embed THEN "embed" ELSE "publish")
    ELSE "publish"

\* spawn_workers: the pools that are spawned.
PoolSpawned(p, cfg) ==
    IF p = "enrich" THEN cfg.enable_enrich
    ELSE IF p = "embed" THEN cfg.enable_embed
    ELSE TRUE

\* PipelineConfig: workers per stage (semaphore size of the pool).
WorkerCount(s) == IF s = "embed" THEN 1 ELSE 2

\* IngestionEvent as a source builds it.
NewEvent == [status |-> "pending", processing_started_at |-> None,
             processing_completed_at |-> None]

NormalizeEventKeepingStatus(ev, t) == ev

\* NormalizeStage::normalize_event: pending becomes processing, stamped.
NormalizeEvent(ev, t) ==
    IF ev.status = "pending"
    THEN [ev EXCEPT !.status = "processing", !.processing_started_at = Some(t)]
    ELSE ev

\* What a stage's process does to the event.
StageProcess(s, ev, t) == IF s = "normalize" THEN NormalizeEvent(ev, t) ELSE ev

\* PublishStage::process, before the publish.
MarkCompleted(ev, t) ==
    [ev EXCEPT !.status = "completed", !.processing_completed_at = Some(t)]

\* PublishStage::process, when ResilientPublisher::publish gave up.
MarkFailed(ev) == [ev EXCEPT !.status = "failed"]

\* A submit call that is not in progress.
PpNoSubmit == [pc |-> "idle", item |-> 0]

(***************************************************************************)
(* The checkpoint manager on its own (checkpoint.rs), two sources.         *)
(***************************************************************************)
CkSources == {"newsapi", "x_api"}

\* The cursors a fetch result can carry.
CkCursors == {None, Some(2)}

LastFetchAtWindowStart(old, now) == Some(0)

\* SourceCheckpoint::record_success: last_fetch_at = Utc::now().
LastFetchAfterSuccess(old, now) == Some(now)

\* CheckpointManager::record_error: get_or_create stamps a new
\* SourceCheckpoint with Utc::now(); record_error leaves the stamp alone.
LastFetchAfterError(old, now) == IF old = None THEN Some(now) ELSE old

\* The windows get_since is called with, in ticks.
DefaultWindows == {1, 2}

\* CheckpointManager::get_since(source_id, default_since): the stored
\* last_fetch_at of the source, or Utc::now() - default_since without one.
GetSince(stored, now, default_since) ==
    IF stored = None THEN now - default_since ELSE stored[1]

(***************************************************************************)
(* The tasks run_continuous spawns (harvester.rs) and the sources each     *)
(* of them fetches, in order.                                              *)
(***************************************************************************)
SdHarvesters == {"news", "social"}
SdTasks == SdHarvesters \cup {"saver"}
SdSources(t) == IF t = "news" THEN <<"newsapi", "cryptopanic">> ELSE <<"x_api">>
SdTask(pc, k) == [pc |-> pc, k |-> k]

(***************************************************************************)
(* The checkpoint file (checkpoint.rs): CheckpointState as serde_json      *)
(* writes and reads it, and the data directory it lives in.                *)
(***************************************************************************)
MaxRecords == 1
MaxRestarts == 2

\* The canonical file and the temporary file of save_to_file.
FilePath == "checkpoint.json"
TempPathIsFilePath == "checkpoint.json"
TempPath == "checkpoint.json.tmp"

\* A file: absent, or present with the lines it holds.
NoFile == [exists |-> FALSE, data |-> <<>>]
FileOf(data) == [exists |-> TRUE, data |-> data]

\* JSON values.  Strings (a cursor token, an error message, a timestamp, a
\* uuid) are identified by a number.
JNull == [t |-> "null", n |-> 0]
JNum(n) == [t |-> "number", n |-> n]
JStr(n) == [t |-> "string", n |-> n]
JOpt(o) == IF o = None THEN JNull ELSE JStr(o[1])

\* One "key": value line of the pretty-printed document, keyed by its path.
Line(key, value) == [key |-> key, value |-> value]
JOpen == Line(<<"{">>, JNull)
JClose == Line(<<"}">>, JNull)

\* CheckpointState::default(): no sources, a fresh session_id.
DefaultState(sid) ==
    [sources |-> [src \in CkSources |-> NewCheckpoint],
     last_fetch_at |-> [src \in CkSources |-> None],
     session_id |-> sid]

\* Serialize for SourceCheckpoint without rename_all = "camelCase".
SerializeSourceSnakeCase(src, cp, at) ==
    << Line(<<"sources", src, "last_fetch_at">>, JOpt(at)),
       Line(<<"sources", src, "cursor">>, JOpt(cp.cursor)),
       Line(<<"sources", src, "last_batch_count">>, JNum(cp.last_batch_count)),
       Line(<<"sources", src, "total_items_fetched">>, JNum(cp.total_items_fetched)),
       Line(<<"sources", src, "last_error">>, IF cp.last_error THEN JStr(1) ELSE JNull),
       Line(<<"sources", src, "error_count">>, JNum(cp.error_count)) >>

\* #[derive(Serialize)] #[serde(rename_all = "camelCase")] SourceCheckpoint.
\* source_id repeats the key of the map and metadata stays empty.
SerializeSource(src, cp, at) ==
    << Line(<<"sources", src, "lastFetchAt">>, JOpt(at)),
       Line(<<"sources", src, "cursor">>, JOpt(cp.cursor)),
       Line(<<"sources", src, "lastBatchCount">>, JNum(cp.last_batch_count)),
       Line(<<"sources", src, "totalItemsFetched">>, JNum(cp.total_items_fetched)),
       Line(<<"sources", src, "lastError">>, IF cp.last_error THEN JStr(1) ELSE JNull),
       Line(<<"sources", src, "errorCount">>, JNum(cp.error_count)) >>

\* The entries of the sources map: only the sources that have a checkpoint.
RECURSIVE SerializeSources(_, _)
SerializeSources(st, todo) ==
    IF todo = {} THEN <<>>
    ELSE LET src == CHOOSE x \in todo : TRUE
         IN  (IF st.sources[src].exists
                 THEN SerializeSource(src, st.sources[src], st.last_fetch_at[src])
                 ELSE <<>>)
             \o SerializeSources(st, todo \ {src})

\* serde_json::to_string_pretty(&self.state).
Serialize(st) ==
    <<JOpen, Line(<<"version">>, JStr(1))>>
        \o SerializeSources(st, CkSources)
        \o <<Line(<<"sessionId">>, JStr(st.session_id)), JClose>>

\* What from_str finds under a key.
Values(doc, key) == {doc[i].value : i \in {j \in 1..Len(doc) : doc[j].key = key}}
Has(doc, key, t) == \E v \in Values(doc, key) : v.t = t
Get(doc, key) == (CHOOSE v \in Values(doc, key) : TRUE).n
GetOpt(doc, key) == IF Has(doc, key, "string") THEN Some(Get(doc, key)) ELSE None

\* The sources the document has an entry for.
Mentioned(doc) ==
    {src \in CkSources :
        \E i \in 1..Len(doc) : Len(doc[i].key) = 3 /\ doc[i].key[2] = src}

\* serde_json::from_str::<CheckpointState> succeeds: the text is a whole
\* document and every field that is not an Option is there with its type.
ParseOk(doc) ==
    /\ Len(doc) >= 2
    /\ doc[1] = JOpen
    /\ doc[Len(doc)] = JClose
    /\ Has(doc, <<"version">>, "string")
    /\ Has(doc, <<"sessionId">>, "string")
    /\ \A src \in Mentioned(doc) :
          /\ Has(doc, <<"sources", src, "lastFetchAt">>, "string")
          /\ Has(doc, <<"sources", src, "lastBatchCount">>, "number")
          /\ Has(doc, <<"sources", src, "totalItemsFetched">>, "number")
          /\ Has(doc, <<"sources", src, "errorCount">>, "number")

\* The SourceCheckpoint from_str builds for one entry of the map.
ParseSource(doc, src) ==
    [exists |-> TRUE,
     cursor |-> GetOpt(doc, <<"sources", src, "cursor">>),
     last_batch_count |-> Get(doc, <<"sources", src, "lastBatchCount">>),
     total_items_fetched |-> Get(doc, <<"sources", src, "totalItemsFetched">>),
     last_error |-> Has(doc, <<"sources", src, "lastError">>, "string"),
     error_count |-> Get(doc, <<"sources", src, "errorCount">>),
     past |-> {}]

\* The CheckpointState from_str builds from a document it accepts.
Parse(doc) ==
    [sources |-> [src \in CkSources |->
                     IF src \in Mentioned(doc) THEN ParseSource(doc, src)
                     ELSE NewCheckpoint],
     last_fetch_at |-> [src \in CkSources |->
                     IF src \in Mentioned(doc)
                         THEN GetOpt(doc, <<"sources", src, "lastFetchAt">>)
                         ELSE None],
     session_id |-> Get(doc, <<"sessionId">>)]

\* What a data directory can hold before the service ever ran: an empty
\* file, or a document that stops short.
ForeignFiles == {<<>>, <<JOpen, Line(<<"version">>, JStr(1))>>}

\* How much of an unsynced file of `len` lines a crash leaves: nothing, a
\* part, or all of it.  Every proper part fails from_str alike.
TornLengths(len) == {0, len \div 2, len}

\* The data directory before the first start.
EmptyDir == [p \in {FilePath, TempPath} |-> NoFile]

Init ==
    /\ cb = NewCircuitBreaker
    /\ cb_pc = [t \in Callers |-> "idle"]
    /\ last_call = Call("new", FALSE, "Closed")
    /\ fails_since_success = 0
    /\ half_open_admitted = 0
    /\ half_open_successes = 0
    /\ half_open_lost = 0
    /\ open_age = 0
    /\ opened_count = 0
    /\ semaphore = max_concurrent_requests
    /\ ex_pc = [c \in HttpSources |-> "idle"]
    /\ permit = [c \in HttpSources |-> FALSE]
    /\ attempt = [c \in HttpSources |-> 0]
    /\ delay = [c \in HttpSources |-> 0]
    /\ outcome = [c \in HttpSources |-> NoOutcome]
    /\ result = [c \in HttpSources |-> "none"]
    /\ sent = [c \in HttpSources |-> 0]
    /\ retried = [c \in HttpSources |-> 0]
    /\ mode = "none"
    /\ upstream = "flaky"
    /\ hv_pc = "idle"
    /\ batch = <<>>
    /\ idx = 0
    /\ seen = {}
    /\ append_log = {}
    /\ checkpoint = NewCheckpoint
    /\ dirty = FALSE
    /\ checkpoint_file = NewCheckpoint
    /\ queue = <<>>
    /\ published = [r \in Records |-> 0]
    /\ dedup_hits_total = 0
    /\ returned = [r \in Records |-> 0]
    /\ suppressed = {}
    /\ submitted = {}
    /\ cycles = 0
    /\ dd_tier = "none"
    /\ dd_redis = {}
    /\ dd_task = [t \in DdTasks |-> DdIdle]
    /\ marked = {}
    /\ intact = {}
    /\ pp_cfg = PpNoConfig
    /\ pp_q = [q \in PpQueues |-> <<>>]
    /\ pp_closed = [q \in PpQueues |-> FALSE]
    /\ pp_pool = [p \in PpPools |-> "absent"]
    /\ pp_work = [s \in PpStages |-> {}]
    /\ pp_router = None
    /\ pp_shutdown = FALSE
    /\ pp_sub = PpNoSubmit
    /\ pp_ev = [i \in PpItems |-> NewEvent]
    /\ pp_now = 0
    /\ pp_bus = {}
    /\ pp_done = [i \in PpItems |-> "no"]
    /\ backpressure_events_total = 0
    /\ pp_res = [i \in PpItems |-> "none"]
    /\ pp_enq = [i \in PpItems |-> 0]
    /\ pp_recv = [i \in PpItems |-> 0]
    /\ pp_at_signal = {}
    /\ ck_sources = [src \in CkSources |-> NewCheckpoint]
    /\ ck_last_fetch_at = [src \in CkSources |-> None]
    /\ ck_now = 0
    /\ ck_sum = [src \in CkSources |-> 0]
    /\ ck_errs = [src \in CkSources |-> 0]
    /\ ck_last_success = [src \in CkSources |-> None]
    /\ cf_pc = "none"
    /\ cf_fs = EmptyDir
    /\ cf_unsynced = {}
    /\ cf_state = DefaultState(0)
    /\ cf_dirty = FALSE
    /\ cf_now = 0
    /\ cf_next_sid = 1
    /\ cf_installed = NoFile
    /\ cf_committed = NoFile
    /\ cf_last_save = None
    /\ cf_loaded = FALSE
    /\ cf_records = 0
    /\ cf_restarts = 0
    /\ sd_mode = "none"
    /\ sd_signal = FALSE
    /\ sd_handler = "absent"
    /\ sd_running = TRUE
    /\ sd_task = [t \in SdTasks |-> SdTask("absent", 0)]
    /\ sd_main = "absent"
    /\ sd_proc = "running"
    /\ sd_dirty = FALSE
    /\ sd_mem = 0
    /\ sd_file = 0
    /\ sd_late_fetch = FALSE
    /\ append_failed = FALSE
    /\ last_fetch = "none"
    /\ sent_cursor = None
    /\ failed_cycles = 0
    /\ sc_cfg = None
    /\ sc_pc = "none"
    /\ sc_req = None
    /\ sc_wire = None
    /\ sc_tokens = rate_limit_rpm
    /\ sc_result = "none"
    /\ ld_cfg = PpNoConfig
    /\ ld_q = [q \in PpQueues |-> 0]
    /\ ld_held = [p \in PpPools |-> 0]
    /\ ld_active = [s \in PpStages |-> 0]
    /\ pp_trace = [i \in PpItems |-> <<>>]
    /\ rp_pc = "idle"
    /\ rp_attempt = 0
    /\ rp_last_error = None
    /\ rp_result = "none"
    /\ publish_total = [success |-> 0, failure |-> 0]
    /\ rp_calls = 0
    /\ rp_waits = <<>>
    /\ rp_events = <<>>
    /\ as_dirty = FALSE
    /\ as_last_save = 0
    /\ as_now = 0
    /\ as_state = 0
    /\ as_file = 0
    /\ as_call = NoSaveCall

\* execute(request) is called and waits at semaphore.acquire().
ExCall(c) ==
    /\ ex_pc[c] = "idle"
    /\ ex_pc' = [ex_pc EXCEPT ![c] = "acquire"]
    /\ UNCHANGED <<semaphore, permit, attempt, delay, outcome, result, sent, retried>>

\* The permit is granted; attempt = 0, delay = initial_retry_delay.
ExAcquire(c) ==
    /\ ex_pc[c] = "acquire"
    /\ semaphore > 0
    /\ semaphore' = semaphore - 1
    /\ permit' = [permit EXCEPT ![c] = TRUE]
    /\ attempt' = [attempt EXCEPT ![c] = 0]
    /\ delay' = [delay EXCEPT ![c] = initial_retry_delay]
    /\ ex_pc' = [ex_pc EXCEPT ![c] = "send"]
    /\ UNCHANGED <<outcome, result, sent, retried>>

\* Top of the loop: attempt += 1, the request is built and sent.
ExSend(c) ==
    /\ ex_pc[c] = "send"
    /\ attempt' = [attempt EXCEPT ![c] = @ + 1]
    /\ sent' = [sent EXCEPT ![c] = @ + 1]
    /\ outcome' = [outcome EXCEPT ![c] = NoOutcome]
    /\ ex_pc' = [ex_pc EXCEPT ![c] = "wait"]
    /\ UNCHANGED <<semaphore, permit, delay, result, retried>>

\* client.execute(req) completes with o: retry (sleep) or return.
ExRespond(c, o) ==
    /\ ex_pc[c] = "wait"
    /\ outcome' = [outcome EXCEPT ![c] = o]
    /\ IF ShouldRetry(o, attempt[c])
        THEN /\ ex_pc' = [ex_pc EXCEPT ![c] = "sleep"]
             /\ retried' = [retried EXCEPT ![c] = @ + 1]
             /\ UNCHANGED <<semaphore, permit, result>>
        ELSE /\ End(c, Returned(o))
             /\ UNCHANGED retried
    /\ UNCHANGED <<attempt, delay, sent>>

\* The jittered sleep is over: delay = min(delay * 2, max_retry_delay).
ExWake(c) ==
    /\ ex_pc[c] = "sleep"
    /\ delay' = [delay EXCEPT ![c] = Min(@ * 2, max_retry_delay)]
    /\ ex_pc' = [ex_pc EXCEPT ![c] = "send"]
    /\ UNCHANGED <<semaphore, permit, attempt, outcome, result, sent, retried>>

\* The caller drops the future at one of its await points.
ExCancel(c) ==
    /\ ex_pc[c] \in {"acquire", "wait", "sleep"}
    /\ End(c, "Cancelled")
    /\ UNCHANGED <<attempt, delay, outcome, sent, retried>>

\* The source issues its next request.
ExNextRequest(c) ==
    /\ ex_pc[c] = "done"
    /\ ex_pc' = [ex_pc EXCEPT ![c] = "idle"]
    /\ attempt' = [attempt EXCEPT ![c] = 0]
    /\ delay' = [delay EXCEPT ![c] = 0]
    /\ outcome' = [outcome EXCEPT ![c] = NoOutcome]
    /\ result' = [result EXCEPT ![c] = "none"]
    /\ sent' = [sent EXCEPT ![c] = 0]
    /\ retried' = [retried EXCEPT ![c] = 0]
    /\ UNCHANGED <<semaphore, permit>>

(***************************************************************************)
(* The breaker under concurrent callers.  allow_request, record_success,   *)
(* trip and reset hold the state write lock from their first to their last *)
(* statement and are one step each; record_failure stamps                  *)
(* last_failure_time before it takes the lock, in a step of its own.       *)
(***************************************************************************)
CbAllowRequest(t) ==
    /\ cb_pc[t] = "idle"
    /\ LET r == AllowRequest(cb)
       IN  /\ cb' = r.cb
           /\ CbHistory(cb, r.cb, Call("allow_request", r.ok, cb.state))
    /\ UNCHANGED cb_pc
    /\ UNCHANGED <<exVars, svcVars>>
    /\ UNCHANGED extVars

CbRecordSuccess(t) ==
    /\ cb_pc[t] = "idle"
    /\ cb.total_successes < MaxCount
    /\ cb' = RecordSuccess(cb)
    /\ CbHistory(cb, cb', Call("record_success", FALSE, cb.state))
    /\ UNCHANGED cb_pc
    /\ UNCHANGED <<exVars, svcVars>>
    /\ UNCHANGED extVars

CbRecordFailureStamp(t) ==
    /\ cb_pc[t] = "idle"
    /\ cb.total_failures < MaxCount
    /\ cb' = RecordFailureStamp(cb)
    /\ cb_pc' = [cb_pc EXCEPT ![t] = "record_failure"]
    /\ CbHistory(cb, cb', Call("stamp", FALSE, cb.state))
    /\ UNCHANGED <<exVars, svcVars>>
    /\ UNCHANGED extVars

CbRecordFailureLocked(t) ==
    /\ cb_pc[t] = "record_failure"
    /\ cb' = RecordFailureLocked(cb)
    /\ cb_pc' = [cb_pc EXCEPT ![t] = "idle"]
    /\ CbHistory(cb, cb', Call("record_failure", FALSE, cb.state))
    /\ UNCHANGED <<exVars, svcVars>>
    /\ UNCHANGED extVars

CbTrip ==
    /\ cb.trips < MaxCount
    /\ cb' = Trip(cb)
    /\ CbHistory(cb, cb', Call("trip", FALSE, cb.state))
    /\ UNCHANGED cb_pc
    /\ UNCHANGED <<exVars, svcVars>>
    /\ UNCHANGED extVars

CbReset ==
    /\ cb' = Reset(cb)
    /\ CbHistory(cb, cb', Call("reset", FALSE, cb.state))
    /\ UNCHANGED cb_pc
    /\ UNCHANGED <<exVars, svcVars>>
    /\ UNCHANGED extVars

\* Time passes between calls, not inside the few instructions between the
\* stamp and the locked part of record_failure.
CbTick ==
    /\ \A t \in Callers : cb_pc[t] = "idle"
    /\ cb.last_failure_time # None
    /\ cb' = Older(cb)
    /\ CbHistory(cb, cb', Call("tick", FALSE, cb.state))
    /\ UNCHANGED cb_pc
    /\ UNCHANGED <<exVars, svcVars>>
    /\ UNCHANGED extVars

CbNext ==
    \/ \E t \in Callers : CbAllowRequest(t)
    \/ \E t \in Callers : CbRecordSuccess(t)
    \/ \E t \in Callers : CbRecordFailureStamp(t)
    \/ \E t \in Callers : CbRecordFailureLocked(t)
    \/ CbTrip
    \/ CbReset
    \/ CbTick

SpecCB == Init /\ [][CbNext]_vars

(***************************************************************************)
(* The executor under the calls of the three sources that share it.        *)
(***************************************************************************)
ExNext ==
    /\ \/ \E c \in HttpSources : ExCall(c)
       \/ \E c \in HttpSources : ExAcquire(c)
       \/ \E c \in HttpSources : ExSend(c)
       \/ \E c \in HttpSources : \E o \in Outcomes : ExRespond(c, o)
       \/ \E c \in HttpSources : ExWake(c)
       \/ \E c \in HttpSources : ExCancel(c)
       \/ \E c \in HttpSources : ExNextRequest(c)
    /\ UNCHANGED <<cbVars, svcVars, extVars>>

SpecExec == Init /\ [][ExNext]_vars

(***************************************************************************)
(* The service: daemon (harvest loop) or pipeline (main loop) under a      *)
(* source that may fail, storage that may fail, and crashes.               *)
(***************************************************************************)
\* main: the command that runs.
StartDaemon ==
    /\ mode = "none"
    /\ mode' = "daemon"
    /\ UNCHANGED <<cbVars, exVars, upstream, hv_pc, batch, idx, seen, append_log,
                   checkpoint, dirty, checkpoint_file, queue, published,
                   dedup_hits_total, returned, suppressed, submitted, cycles>>
    /\ UNCHANGED extVars

StartPipeline ==
    /\ mode = "none"
    /\ mode' = "pipeline"
    /\ UNCHANGED <<cbVars, exVars, upstream, hv_pc, batch, idx, seen, append_log,
                   checkpoint, dirty, checkpoint_file, queue, published,
                   dedup_hits_total, returned, suppressed, submitted, cycles>>
    /\ UNCHANGED extVars

\* run_daemon without --daemon: run_once, a single harvest_source per source.
StartOnce ==
    /\ mode = "none"
    /\ mode' = "once"
    /\ UNCHANGED <<cbVars, exVars, upstream, hv_pc, batch, idx, seen, append_log,
                   checkpoint, dirty, checkpoint_file, queue, published,
                   dedup_hits_total, returned, suppressed, submitted, cycles>>
    /\ UNCHANGED extVars

\* Where a cycle ends: the periodic harvester goes back to its ticker,
\* harvest_source returns to run_once.
CycleEnd(m) == IF m = "once" THEN "done" ELSE "idle"

\* FetchOptions::new().since(since).limit(100), and run_once's options with
\* `since` replaced: the cursor is left at its default.
HvFetchOptions(cp) == [limit |-> 100, cursor |-> None]

\* News harvester: the ticker fires and the coordinator asks the breaker;
\* harvest_source starts the same way and returns Ok(0) when refused.
HvCycleStart ==
    /\ mode \in {"daemon", "once"} /\ hv_pc = "idle"
    /\ LET a == AllowRequest(cb)
       IN  /\ cb' = a.cb
           /\ hv_pc' = IF a.ok THEN "fetch" ELSE CycleEnd(mode)
    /\ cycles' = Min(cycles + 1, MaxCycles)
    /\ UNCHANGED <<cbHist, exVars, mode, upstream, batch, idx, seen, append_log,
                   checkpoint, dirty, checkpoint_file, queue, published,
                   dedup_hits_total, returned, suppressed, submitted>>
    /\ UNCHANGED extVars

\* get_since, then source.fetch(options).  The periodic harvesters match on
\* the result; harvest_source applies `?`, which returns the Err at once.
HvFetch(resp) ==
    /\ mode \in {"daemon", "once"} /\ hv_pc = "fetch"
    /\ LET f == SourceFetch(cb, resp)
       IN  /\ cb' = f.cb
           /\ batch' = f.events
           /\ returned' = Returned2(f.events)
           /\ idx' = IF f.ok THEN 1 ELSE 0
           /\ hv_pc' = IF ~f.ok THEN (IF mode = "once" THEN "done" ELSE "failed")
                       ELSE IF f.events = <<>> THEN "record" ELSE "dedup"
           /\ last_fetch' = IF f.ok THEN "ok" ELSE "err"
    /\ sent_cursor' = HvFetchOptions(checkpoint).cursor
    /\ UNCHANGED <<cbHist, exVars, mode, upstream, seen, append_log, checkpoint,
                   dirty, checkpoint_file, queue, published, dedup_hits_total,
                   suppressed, submitted, cycles>>
    /\ UNCHANGED <<extRest, append_failed, failed_cycles>>

\* dedup.check_and_mark for the event at idx; a duplicate is skipped.
HvDedup ==
    /\ mode \in {"daemon", "once"} /\ hv_pc = "dedup"
    /\ LET m == CheckAndMark(seen, batch[idx])
       IN  /\ seen' = m.seen
           /\ suppressed' = IF m.dup THEN suppressed \cup {batch[idx]} ELSE suppressed
           /\ idx' = IF m.dup THEN idx + 1 ELSE idx
           /\ hv_pc' = IF ~m.dup THEN "append"
                       ELSE IF idx + 1 > Len(batch) THEN "record" ELSE "dedup"
    /\ UNCHANGED <<cbVars, exVars, mode, upstream, batch, append_log, checkpoint,
                   dirty, checkpoint_file, queue, published, dedup_hits_total,
                   returned, submitted, cycles>>
    /\ UNCHANGED extVars

\* append_log.append for the event at idx; an error is only logged.
HvAppend(ok) ==
    /\ mode \in {"daemon", "once"} /\ hv_pc = "append"
    /\ append_log' = IF ok THEN append_log \cup {batch[idx]} ELSE append_log
    /\ append_failed' = (append_failed \/ ~ok)
    /\ idx' = idx + 1
    /\ hv_pc' = IF idx + 1 > Len(batch) THEN "record" ELSE "dedup"
    /\ UNCHANGED <<cbVars, exVars, mode, upstream, batch, seen, checkpoint, dirty,
                   checkpoint_file, queue, published, dedup_hits_total, returned,
                   suppressed, submitted, cycles>>
    /\ UNCHANGED <<extRest, last_fetch, sent_cursor, failed_cycles>>

\* checkpoint.record_success(source, events.len(), next_cursor) and
\* cb.record_success().
HvRecordSuccess ==
    /\ mode \in {"daemon", "once"} /\ hv_pc = "record"
    /\ checkpoint' = CheckpointRecordSuccess(checkpoint, batch, NextCursor(batch))
    /\ dirty' = TRUE
    /\ cb' = RecordSuccess(cb)
    /\ hv_pc' = CycleEnd(mode) /\ batch' = <<>> /\ idx' = 0
    /\ append_failed' = FALSE
    /\ last_fetch' = "none"
    /\ sent_cursor' = None
    /\ failed_cycles' = 0
    /\ UNCHANGED <<cbHist, exVars, mode, upstream, seen, append_log, checkpoint_file,
                   queue, published, dedup_hits_total, returned, suppressed,
                   submitted, cycles>>
    /\ UNCHANGED extRest

\* The Err arm of the periodic harvesters: checkpoint.record_error and
\* cb.record_failure().
HvRecordError ==
    /\ mode = "daemon" /\ hv_pc = "failed"
    /\ checkpoint' = CheckpointRecordError(checkpoint)
    /\ dirty' = TRUE
    /\ cb' = RecordFailure(cb)
    /\ hv_pc' = "idle" /\ batch' = <<>> /\ idx' = 0
    /\ append_failed' = FALSE
    /\ last_fetch' = "none"
    /\ sent_cursor' = None
    /\ failed_cycles' = Min(failed_cycles + 1, failure_threshold + 1)
    /\ UNCHANGED <<cbHist, exVars, mode, upstream, seen, append_log, checkpoint_file,
                   queue, published, dedup_hits_total, returned, suppressed,
                   submitted, cycles>>
    /\ UNCHANGED extRest

\* Checkpoint saver: maybe_save writes the state when it is dirty and the
\* save interval has passed; the write can fail.
CheckpointSave(ok) ==
    /\ mode = "daemon" /\ dirty
    /\ checkpoint_file' = IF ok THEN checkpoint ELSE checkpoint_file
    /\ dirty' = IF ok THEN FALSE ELSE dirty
    /\ UNCHANGED <<cbVars, exVars, mode, upstream, hv_pc, batch, idx, seen,
                   append_log, checkpoint, queue, published, dedup_hits_total,
                   returned, suppressed, submitted, cycles>>
    /\ UNCHANGED extVars

\* run_once after the sources: checkpoint.save(), whatever the cycle did;
\* then the process waits for the signal.
OnceSave(ok) ==
    /\ mode = "once" /\ hv_pc = "done"
    /\ hv_pc' = "saved"
    /\ checkpoint_file' = IF ok THEN checkpoint ELSE checkpoint_file
    /\ dirty' = IF ok THEN FALSE ELSE dirty
    /\ UNCHANGED <<cbVars, exVars, mode, upstream, batch, idx, seen,
                   append_log, checkpoint, queue, published, dedup_hits_total,
                   returned, suppressed, submitted, cycles>>
    /\ UNCHANGED extVars

\* Pipeline main loop: the interval fires and fetch_from_source("all")
\* calls source.fetch; there is no breaker call by the loop itself, no
\* dedup, no append log and no checkpoint.
PlCycle(resp) ==
    /\ mode = "pipeline" /\ hv_pc = "idle"
    /\ LET f == SourceFetch(cb, resp)
       IN  /\ cb' = f.cb
           /\ batch' = f.events
           /\ returned' = Returned2(f.events)
           /\ idx' = IF f.events = <<>> THEN 0 ELSE 1
           /\ hv_pc' = IF f.events = <<>> THEN "idle" ELSE "submit"
    /\ cycles' = Min(cycles + 1, MaxCycles)
    /\ UNCHANGED <<cbHist, exVars, mode, upstream, seen, append_log, checkpoint,
                   dirty, checkpoint_file, queue, published, dedup_hits_total,
                   suppressed, submitted>>
    /\ UNCHANGED extVars

\* pipeline.submit(item): the send completes once the channel has room.
PlSubmit ==
    /\ mode = "pipeline" /\ hv_pc = "submit"
    /\ Len(queue) < channel_capacity
    /\ queue' = Append(queue, batch[idx])
    /\ submitted' = submitted \cup {batch[idx]}
    /\ IF idx + 1 > Len(batch)
        THEN hv_pc' = "idle" /\ batch' = <<>> /\ idx' = 0
        ELSE hv_pc' = "submit" /\ batch' = batch /\ idx' = idx + 1
    /\ UNCHANGED <<cbVars, exVars, mode, upstream, seen, append_log, checkpoint,
                   dirty, checkpoint_file, published, dedup_hits_total, returned,
                   suppressed, cycles>>
    /\ UNCHANGED extVars

\* The stages pass the oldest item on to PublishStage, which publishes it;
\* a publish that fails after its retries drops the item.
PlPublish(ok) ==
    /\ mode = "pipeline" /\ queue # <<>>
    /\ queue' = Tail(queue)
    /\ published' = IF ok THEN [published EXCEPT ![Head(queue)] = Tally(@)]
                    ELSE published
    /\ UNCHANGED <<cbVars, exVars, mode, upstream, hv_pc, batch, idx, seen,
                   append_log, checkpoint, dirty, checkpoint_file,
                   dedup_hits_total, returned, suppressed, submitted, cycles>>
    /\ UNCHANGED extVars

\* Wall-clock time passes.
Tick ==
    /\ mode # "none"
    /\ cb.last_failure_time # None
    /\ cb' = Older(cb)
    /\ UNCHANGED <<cbHist, exVars, svcVars>>
    /\ UNCHANGED extVars

\* The source's API recovers and from now on answers every request 200
\* with a well-formed body.
UpstreamHeals ==
    /\ mode # "none" /\ upstream = "flaky"
    /\ upstream' = "healthy"
    /\ UNCHANGED <<cbVars, exVars, mode, hv_pc, batch, idx, seen, append_log,
                   checkpoint, dirty, checkpoint_file, queue, published,
                   dedup_hits_total, returned, suppressed, submitted, cycles>>
    /\ UNCHANGED extVars

\* The process dies and is started again: what lived in memory is gone,
\* the append log, the checkpoint file and the bus keep what they hold.
Crash ==
    /\ mode # "none"
    /\ mode' = "none"
    /\ cb' = NewCircuitBreaker
    /\ hv_pc' = "idle" /\ batch' = <<>> /\ idx' = 0
    /\ seen' = {}
    /\ checkpoint' = checkpoint_file
    /\ dirty' = FALSE
    /\ queue' = <<>>
    /\ append_failed' = FALSE
    /\ last_fetch' = "none"
    /\ sent_cursor' = None
    /\ failed_cycles' = 0
    /\ UNCHANGED <<cbHist, exVars, upstream, append_log, checkpoint_file, published,
                   dedup_hits_total, returned, suppressed, submitted, cycles>>
    /\ UNCHANGED extRest

Next ==
    \/ StartDaemon
    \/ StartPipeline
    \/ StartOnce
    \/ cycles < MaxCycles /\ HvCycleStart
    \/ \E resp \in Responses(upstream) : HvFetch(resp)
    \/ HvDedup
    \/ \E ok \in BOOLEAN : HvAppend(ok)
    \/ HvRecordSuccess
    \/ HvRecordError
    \/ \E ok \in BOOLEAN : CheckpointSave(ok)
    \/ \E ok \in BOOLEAN : OnceSave(ok)
    \/ cycles < MaxCycles /\ \E resp \in Responses(upstream) : PlCycle(resp)
    \/ PlSubmit
    \/ \E ok \in BOOLEAN : PlPublish(ok)
    \/ Tick
    \/ UpstreamHeals
    \/ Crash

Spec == Init /\ [][Next]_vars

\* The daemon alone, with no crash, while the source has no records to
\* return (its answers are empty pages or errors).  The harvester task is
\* scheduled whenever it can take a step (its ticker fires every
\* news_interval_ms), and time passes.
QuietResponses(up) == {resp \in Responses(up) : resp.events = <<>>}

HarvesterStep ==
    \/ HvCycleStart
    \/ \E resp \in QuietResponses(upstream) : HvFetch(resp)
    \/ HvRecordSuccess
    \/ HvRecordError

DaemonNext ==
    \/ StartDaemon
    \/ HarvesterStep
    \/ \E ok \in BOOLEAN : CheckpointSave(ok)
    \/ Tick
    \/ UpstreamHeals

FairSpec ==
    /\ Init
    /\ [][DaemonNext]_vars
    /\ WF_vars(StartDaemon)
    /\ WF_vars(HarvesterStep)
    /\ WF_vars(Tick)

(***************************************************************************)
(* The dedup store under the tasks that share it.  Each acquisition of the *)
(* seen lock and each Redis command is a step; between the steps of one    *)
(* call the other task runs.                                               *)
(***************************************************************************)
\* DedupStore::new: memory only.
DdNew ==
    /\ dd_tier = "none"
    /\ dd_tier' = "memory"
    /\ seen' = {}
    /\ UNCHANGED <<dd_redis, dd_task, marked, intact>>

\* DedupStore::with_redis: Redis in front of the memory set.
DdWithRedis ==
    /\ dd_tier = "none"
    /\ dd_tier' = "redis"
    /\ seen' = {}
    /\ UNCHANGED <<dd_redis, dd_task, marked, intact>>

\* A task calls check_and_mark, is_duplicate or mark_seen with a key.
DdCall(t, op, k) ==
    /\ dd_tier # "none"
    /\ dd_task[t].pc = "idle"
    /\ dd_task' = [dd_task EXCEPT ![t] =
           [pc |-> IF op = "mark_seen"
                   THEN (IF dd_tier = "redis" THEN "add_redis" ELSE "mark_mem")
                   ELSE (IF dd_tier = "redis" THEN "check_redis" ELSE "check_mem"),
            op |-> op, key |-> Some(k), ret |-> FALSE, flushed |-> FALSE]]
    /\ UNCHANGED <<seen, dd_tier, dd_redis, marked, intact>>

\* Where a call goes once is_duplicate has answered dup.
DdAfterIsDuplicate(tk, dup) ==
    IF dup \/ tk.op = "is_duplicate"
    THEN [tk EXCEPT !.pc = "idle", !.ret = dup]
    ELSE [tk EXCEPT !.pc = IF dd_tier = "redis" THEN "add_redis" ELSE "mark_mem"]

\* is_duplicate, Redis tier: EXISTS dedup:{key}; a hit returns true, a miss
\* or an error goes on to the memory set.
DdCheckRedis(t, reply) ==
    /\ dd_task[t].pc = "check_redis"
    /\ LET tk == dd_task[t]
           hit == reply = "ok" /\ RedisKey(CombinedKey(tk.key[1])) \in dd_redis
       IN dd_task' = [dd_task EXCEPT ![t] =
              IF hit THEN DdAfterIsDuplicate(tk, TRUE)
                     ELSE [tk EXCEPT !.pc = "check_mem"]]
    /\ UNCHANGED <<seen, dd_tier, dd_redis, marked, intact>>

\* is_duplicate, memory set: contains under the read lock.
DdCheckMem(t) ==
    /\ dd_task[t].pc = "check_mem"
    /\ LET tk == dd_task[t]
       IN dd_task' = [dd_task EXCEPT ![t] =
              DdAfterIsDuplicate(tk, IsDuplicate(seen, CombinedKey(tk.key[1])))]
    /\ UNCHANGED <<seen, dd_tier, dd_redis, marked, intact>>

\* mark_seen, Redis tier: SET dedup:{key} 1 EX ttl; an error is logged.
DdAddRedis(t, reply) ==
    /\ dd_task[t].pc = "add_redis"
    /\ LET tk == dd_task[t]
       IN /\ dd_redis' = IF reply = "ok"
                         THEN dd_redis \cup {RedisKey(CombinedKey(tk.key[1]))}
                         ELSE dd_redis
          /\ dd_task' = [dd_task EXCEPT ![t] = [tk EXCEPT !.pc = "mark_mem"]]
          /\ marked' = marked \cup {tk.key[1]}
    /\ UNCHANGED <<seen, dd_tier, intact>>

\* Every call in progress or last made learns of an eviction or clear().
DdFlushed(tasks) == [t \in DdTasks |-> [tasks[t] EXCEPT !.flushed = TRUE]]

\* mark_seen, memory set: under the write lock, clear when full, insert.
DdMarkMem(t) ==
    /\ dd_task[t].pc = "mark_mem"
    /\ LET tk   == dd_task[t]
           k    == tk.key[1]
           done == [dd_task EXCEPT ![t] = [tk EXCEPT !.pc = "idle", !.ret = FALSE]]
       IN /\ seen' = MarkSeen(seen, CombinedKey(k))
          /\ dd_task' = IF seen \subseteq seen' THEN done ELSE DdFlushed(done)
          /\ marked' = marked \cup {k}
          /\ intact' = IF seen \subseteq seen' THEN intact \cup {k} ELSE {k}
    /\ UNCHANGED <<dd_tier, dd_redis>>

\* DedupStore::clear: empties the memory set.
DdClear ==
    /\ dd_tier # "none"
    /\ seen # {}
    /\ seen' = {}
    /\ intact' = {}
    /\ dd_task' = DdFlushed(dd_task)
    /\ UNCHANGED <<dd_tier, dd_redis, marked>>

\* Redis drops a key whose TTL has run out.
DdExpire(rk) ==
    /\ rk \in dd_redis
    /\ dd_redis' = dd_redis \ {rk}
    /\ UNCHANGED <<seen, dd_tier, dd_task, marked, intact>>

DdNext ==
    /\ \/ DdNew
       \/ DdWithRedis
       \/ \E t \in DdTasks, op \in DdOps, k \in DedupKeys : DdCall(t, op, k)
       \/ \E t \in DdTasks, reply \in RedisReplies : DdCheckRedis(t, reply)
       \/ \E t \in DdTasks : DdCheckMem(t)
       \/ \E t \in DdTasks, reply \in RedisReplies : DdAddRedis(t, reply)
       \/ \E t \in DdTasks : DdMarkMem(t)
       \/ DdClear
       \/ \E rk \in dd_redis : DdExpire(rk)
    /\ UNCHANGED <<cbVars, exVars, svcRest, ppVars, ckVars, cfVars, sdVars, hvVars, lateVars>>

SpecDedup == Init /\ [][DdNext]_vars

(***************************************************************************)
(* The staged pipeline under one producer.  A channel operation, a stage's *)
(* process and a publish are one step each; a worker task holds its item   *)
(* between the pool's recv and its own send.                               *)
(***************************************************************************)
\* Copies of item i in channel q.
InQueue(q, i) == Cardinality({n \in 1..Len(pp_q[q]) : pp_q[q][n] = i})

ppRest == <<pp_cfg, pp_closed, pp_pool, pp_shutdown, pp_at_signal>>

\* Pipeline::new with spawn_workers: channels created, pools of the enabled
\* stages spawned; the Receiver of a disabled stage is dropped.
PpNew(enrich, embed) ==
    /\ ~pp_cfg.built
    /\ LET cfg == [built |-> TRUE, enable_enrich |-> enrich, enable_embed |-> embed]
       IN /\ pp_cfg' = cfg
          /\ pp_pool' = [p \in PpPools |->
                            IF PoolSpawned(p, cfg) THEN "running" ELSE "absent"]
          /\ pp_closed' = [q \in PpQueues |->
                              q \in PpStages /\ ~PoolSpawned(q, cfg)]
    /\ UNCHANGED <<pp_q, pp_work, pp_router, pp_shutdown, pp_sub, pp_ev, pp_now,
                   pp_bus, pp_done, backpressure_events_total, pp_res, pp_enq,
                   pp_recv, pp_at_signal>>

\* Sender::send resolving for the submit of item i: Err when the Receiver is
\* gone, the item enqueued when there is a slot.
PpSendResolves(i) ==
    /\ pp_closed["fetch"] \/ Len(pp_q["fetch"]) < channel_capacity
    /\ IF pp_closed["fetch"]
       THEN /\ pp_res' = [pp_res EXCEPT ![i] = "err"]
            /\ UNCHANGED <<pp_q, pp_enq>>
       ELSE /\ pp_q' = [pp_q EXCEPT !["fetch"] = Append(@, i)]
            /\ pp_enq' = [pp_enq EXCEPT ![i] = Inc(@)]
            /\ pp_res' = [pp_res EXCEPT ![i] = "ok"]
    /\ pp_sub' = PpNoSubmit

\* Pipeline::submit, up to its first suspension: the send is polled at once;
\* with the channel full the call suspends in timeout(100 ms, send).
PpSubmit(i) ==
    /\ pp_cfg.built
    /\ pp_sub.pc = "idle"
    /\ pp_res[i] = "none"
    /\ \A j \in PpItems : j < i => pp_res[j] # "none"
    /\ IF pp_closed["fetch"] \/ Len(pp_q["fetch"]) < channel_capacity
       THEN PpSendResolves(i)
       ELSE /\ pp_sub' = [pc |-> "first_send", item |-> i]
            /\ UNCHANGED <<pp_q, pp_enq, pp_res>>
    /\ UNCHANGED <<ppRest, pp_work, pp_router, pp_ev, pp_now, pp_bus, pp_done,
                   backpressure_events_total, pp_recv>>

\* Pipeline::submit: the suspended send (first or second) is woken.
PpSendWakes ==
    /\ pp_sub.pc \in {"first_send", "second_send"}
    /\ PpSendResolves(pp_sub.item)
    /\ UNCHANGED <<ppRest, pp_work, pp_router, pp_ev, pp_now, pp_bus, pp_done,
                   backpressure_events_total, pp_recv>>

PpTimerFiresSendNotCancelSafe ==
    /\ pp_sub.pc = "first_send"
    /\ ~pp_closed["fetch"] /\ Len(pp_q["fetch"]) < channel_capacity
    /\ pp_q' = [pp_q EXCEPT !["fetch"] = Append(@, pp_sub.item)]
    /\ pp_enq' = [pp_enq EXCEPT ![pp_sub.item] = Inc(@)]
    /\ backpressure_events_total' = backpressure_events_total + 1
    /\ pp_sub' = [pp_sub EXCEPT !.pc = "second_send"]
    /\ UNCHANGED <<ppRest, pp_work, pp_router, pp_ev, pp_now, pp_bus,
                   pp_done, pp_res, pp_recv>>

PpTimerFiresOnEverySend ==
    /\ pp_sub.pc \in {"first_send", "second_send"}
    /\ ~pp_closed["fetch"] /\ Len(pp_q["fetch"]) >= channel_capacity
    /\ backpressure_events_total' = backpressure_events_total + 1
    /\ pp_sub' = [pp_sub EXCEPT !.pc = "second_send"]
    /\ UNCHANGED <<ppRest, pp_q, pp_work, pp_router, pp_ev, pp_now, pp_bus,
                   pp_done, pp_res, pp_enq, pp_recv>>

\* Pipeline::submit: the 100 ms timer fires while the first send is still
\* pending; the send future is dropped, the counter incremented, and a second
\* send of a clone of the item is awaited.
PpTimerFires ==
    /\ pp_sub.pc = "first_send"
    /\ ~pp_closed["fetch"] /\ Len(pp_q["fetch"]) >= channel_capacity
    /\ backpressure_events_total' = backpressure_events_total + 1
    /\ pp_sub' = [pp_sub EXCEPT !.pc = "second_send"]
    /\ UNCHANGED <<ppRest, pp_q, pp_work, pp_router, pp_ev, pp_now, pp_bus,
                   pp_done, pp_res, pp_enq, pp_recv>>

\* WorkerPool::run: recv an item, take a permit, spawn the worker, which runs
\* stage.process (normalize, enrich, embed).
PpStageRecv(s) ==
    /\ s # "publish"
    /\ pp_pool[s] = "running"
    /\ pp_q[InQ(s)] # <<>>
    /\ Cardinality(pp_work[s]) < WorkerCount(s)
    /\ LET i == Head(pp_q[InQ(s)])
       IN /\ pp_q' = [pp_q EXCEPT ![InQ(s)] = Tail(@)]
          /\ pp_work' = [pp_work EXCEPT ![s] = @ \cup {i}]
          /\ pp_ev' = [pp_ev EXCEPT ![i] = StageProcess(s, @, pp_now)]
          /\ pp_recv' = IF s = "normalize" THEN [pp_recv EXCEPT ![i] = Inc(@)]
                        ELSE pp_recv
    /\ UNCHANGED <<ppRest, pp_router, pp_sub, pp_now, pp_bus, pp_done,
                   backpressure_events_total, pp_res, pp_enq>>

\* Worker task: tx.send(processed) to the next stage; a send to a channel
\* without Receiver fails and is logged.
PpStageSend(s, i) ==
    /\ s # "publish"
    /\ i \in pp_work[s]
    /\ LET out == OutQ(s, pp_cfg)
       IN /\ pp_closed[out] \/ Len(pp_q[out]) < channel_capacity
          /\ pp_q' = IF pp_closed[out] THEN pp_q
                     ELSE [pp_q EXCEPT ![out] = Append(@, i)]
    /\ pp_work' = [pp_work EXCEPT ![s] = @ \ {i}]
    /\ UNCHANGED <<ppRest, pp_router, pp_sub, pp_ev, pp_now, pp_bus, pp_done,
                   backpressure_events_total, pp_res, pp_enq, pp_recv>>

\* spawn_router: recv from the normalize channel.
PpRouterRecv ==
    /\ pp_pool["router"] = "running"
    /\ pp_router = None
    /\ pp_q["normalize"] # <<>>
    /\ pp_router' = Some(Head(pp_q["normalize"]))
    /\ pp_q' = [pp_q EXCEPT !["normalize"] = Tail(@)]
    /\ UNCHANGED <<ppRest, pp_work, pp_sub, pp_ev, pp_now, pp_bus, pp_done,
                   backpressure_events_total, pp_res, pp_enq, pp_recv>>

\* spawn_router: tx.send(item) to the stage after normalize.
PpRouterSend ==
    /\ pp_router # None
    /\ LET out == NextAfterNormalize(pp_cfg)
       IN /\ pp_closed[out] \/ Len(pp_q[out]) < channel_capacity
          /\ pp_q' = IF pp_closed[out] THEN pp_q
                     ELSE [pp_q EXCEPT ![out] = Append(@, pp_router[1])]
    /\ pp_router' = None
    /\ UNCHANGED <<ppRest, pp_work, pp_sub, pp_ev, pp_now, pp_bus, pp_done,
                   backpressure_events_total, pp_res, pp_enq, pp_recv>>

\* Publish pool: recv, spawn the worker; PublishStage::process marks the
\* event completed and stamps it before it publishes.
PpPublishRecv ==
    /\ pp_pool["publish"] = "running"
    /\ pp_q["publish"] # <<>>
    /\ Cardinality(pp_work["publish"]) < WorkerCount("publish")
    /\ LET i == Head(pp_q["publish"])
       IN /\ pp_q' = [pp_q EXCEPT !["publish"] = Tail(@)]
          /\ pp_work' = [pp_work EXCEPT !["publish"] = @ \cup {i}]
          /\ pp_ev' = [pp_ev EXCEPT ![i] = MarkCompleted(@, pp_now)]
    /\ UNCHANGED <<ppRest, pp_router, pp_sub, pp_now, pp_bus, pp_done,
                   backpressure_events_total, pp_res, pp_enq, pp_recv>>

\* PublishStage::process: ResilientPublisher::publish returns Ok (the bus
\* took the event as it is now) or Err after its retries (marked failed).
PpPublishDone(i, ok) ==
    /\ i \in pp_work["publish"]
    /\ IF ok
       THEN /\ pp_bus' = pp_bus \cup {[id |-> i, event |-> pp_ev[i]]}
            /\ pp_done' = [pp_done EXCEPT ![i] = "published"]
            /\ UNCHANGED pp_ev
       ELSE /\ pp_ev' = [pp_ev EXCEPT ![i] = MarkFailed(@)]
            /\ pp_done' = [pp_done EXCEPT ![i] = "failed"]
            /\ UNCHANGED pp_bus
    /\ pp_work' = [pp_work EXCEPT !["publish"] = @ \ {i}]
    /\ UNCHANGED <<ppRest, pp_q, pp_router, pp_sub, pp_now,
                   backpressure_events_total, pp_res, pp_enq, pp_recv>>

\* Pipeline::shutdown: the broadcast.
PpShutdown ==
    /\ pp_cfg.built
    /\ ~pp_shutdown
    /\ pp_shutdown' = TRUE
    /\ UNCHANGED <<pp_cfg, pp_q, pp_closed, pp_pool, pp_work, pp_router, pp_sub,
                   pp_ev, pp_now, pp_bus, pp_done, backpressure_events_total,
                   pp_res, pp_enq, pp_recv>>

\* WorkerPool::run: select! takes the shutdown branch and leaves the loop.
PpPoolStop(s) ==
    /\ pp_shutdown
    /\ pp_pool[s] = "running"
    /\ pp_pool' = [pp_pool EXCEPT ![s] = "stopping"]
    /\ UNCHANGED <<pp_cfg, pp_at_signal, pp_q, pp_closed, pp_work, pp_router, pp_shutdown,
                   pp_sub, pp_ev, pp_now, pp_bus, pp_done,
                   backpressure_events_total, pp_res, pp_enq, pp_recv>>

\* WorkerPool::run returns once its workers are done: the Receiver is
\* dropped with whatever the channel still holds.
PpPoolExit(s) ==
    /\ pp_pool[s] = "stopping"
    /\ pp_work[s] = {}
    /\ pp_pool' = [pp_pool EXCEPT ![s] = "stopped"]
    /\ pp_q' = [pp_q EXCEPT ![InQ(s)] = <<>>]
    /\ pp_closed' = [pp_closed EXCEPT ![InQ(s)] = TRUE]
    /\ UNCHANGED <<pp_cfg, pp_at_signal, pp_work, pp_router, pp_shutdown, pp_sub, pp_ev,
                   pp_now, pp_bus, pp_done, backpressure_events_total, pp_res,
                   pp_enq, pp_recv>>

\* spawn_router: select! takes the shutdown branch; the task ends and drops
\* the normalize Receiver.
PpRouterStop ==
    /\ pp_shutdown
    /\ pp_pool["router"] = "running"
    /\ pp_router = None
    /\ pp_pool' = [pp_pool EXCEPT !["router"] = "stopped"]
    /\ pp_q' = [pp_q EXCEPT !["normalize"] = <<>>]
    /\ pp_closed' = [pp_closed EXCEPT !["normalize"] = TRUE]
    /\ UNCHANGED <<pp_cfg, pp_at_signal, pp_work, pp_router, pp_shutdown, pp_sub, pp_ev,
                   pp_now, pp_bus, pp_done, backpressure_events_total, pp_res,
                   pp_enq, pp_recv>>

\* chrono::Utc::now: the wall clock moves on.
PpTick ==
    /\ pp_cfg.built
    /\ pp_now < MaxNow
    /\ pp_now' = pp_now + 1
    /\ UNCHANGED <<pp_cfg, pp_at_signal, pp_q, pp_closed, pp_pool, pp_work, pp_router,
                   pp_shutdown, pp_sub, pp_ev, pp_bus, pp_done,
                   backpressure_events_total, pp_res, pp_enq, pp_recv>>

\* The pipeline as long as nobody calls shutdown.
PpRun ==
    \/ \E enrich \in BOOLEAN, embed \in BOOLEAN : PpNew(enrich, embed)
    \/ \E i \in PpItems : PpSubmit(i)
    \/ PpSendWakes
    \/ PpTimerFires
    \/ \E s \in PpStages : PpStageRecv(s)
    \/ \E s \in PpStages, i \in PpItems : PpStageSend(s, i)
    \/ PpRouterRecv
    \/ PpRouterSend
    \/ PpPublishRecv
    \/ \E i \in PpItems, ok \in BOOLEAN : PpPublishDone(i, ok)

ppOthers == <<cbVars, exVars, svcVars, ddVars, ckVars, cfVars, sdVars, hvVars, lateVars>>

PpNext ==
    /\ \/ PpRun
       \/ PpShutdown /\ UNCHANGED pp_at_signal
       \/ \E s \in PpStages : PpPoolStop(s)
       \/ \E s \in PpStages : PpPoolExit(s)
       \/ PpRouterStop
    /\ UNCHANGED ppOthers

SpecPipe == Init /\ [][PpNext]_vars

\* The items that sit in a channel.
PpQueued == {i \in PpItems : \E q \in PpQueues : InQueue(q, i) > 0}

\* The same pipeline, with the items that were queued when shutdown was
\* broadcast kept on record.
PpDrainNext ==
    /\ \/ PpRun
       \/ PpShutdown /\ pp_at_signal' = PpQueued
       \/ \E s \in PpStages : PpPoolStop(s)
       \/ \E s \in PpStages : PpPoolExit(s)
       \/ PpRouterStop
    /\ UNCHANGED ppOthers

SpecPipeDrain == Init /\ [][PpDrainNext]_vars

PpRunNext == PpRun /\ UNCHANGED ppOthers

\* The pipeline with no shutdown signal: every pool, the router and every
\* spawned worker task keep being polled by the runtime, and
\* ResilientPublisher::publish returns.
FairSpecPipe ==
    /\ Init
    /\ [][PpRunNext]_vars
    /\ \A s \in PpStages : WF_vars(PpStageRecv(s) /\ UNCHANGED ppOthers)
    /\ \A s \in PpStages, i \in PpItems :
           WF_vars(PpStageSend(s, i) /\ UNCHANGED ppOthers)
    /\ WF_vars(PpRouterRecv /\ UNCHANGED ppOthers)
    /\ WF_vars(PpRouterSend /\ UNCHANGED ppOthers)
    /\ WF_vars(PpPublishRecv /\ UNCHANGED ppOthers)
    /\ \A i \in PpItems :
           WF_vars((\E ok \in BOOLEAN : PpPublishDone(i, ok)) /\ UNCHANGED ppOthers)

\* The pipeline with the wall clock, as long as nobody calls shutdown.
PpTimedNext ==
    /\ \/ PpRun
       \/ PpTick
    /\ UNCHANGED ppOthers

SpecPipeTimed == Init /\ [][PpTimedNext]_vars

\* The pipeline, shutdown included, with the stages that took each item
\* kept on record: the pool's recv hands the head of its channel to
\* stage.process.
PpOrderNext ==
    /\ \/ \E s \in PpStages :
              /\ PpStageRecv(s)
              /\ pp_trace' = [pp_trace EXCEPT ![Head(pp_q[InQ(s)])] = Append(@, s)]
       \/ /\ PpPublishRecv
          /\ pp_trace' = [pp_trace EXCEPT ![Head(pp_q["publish"])] =
                                              Append(@, "publish")]
       \/ /\ \/ \E enrich \in BOOLEAN, embed \in BOOLEAN : PpNew(enrich, embed)
             \/ \E i \in PpItems : PpSubmit(i)
             \/ PpSendWakes
             \/ PpTimerFires
             \/ \E s \in PpStages, i \in PpItems : PpStageSend(s, i)
             \/ PpRouterRecv
             \/ PpRouterSend
             \/ \E i \in PpItems, ok \in BOOLEAN : PpPublishDone(i, ok)
             \/ PpShutdown /\ UNCHANGED pp_at_signal
             \/ \E s \in PpStages : PpPoolStop(s)
             \/ \E s \in PpStages : PpPoolExit(s)
             \/ PpRouterStop
          /\ UNCHANGED pp_trace
    /\ UNCHANGED <<cbVars, exVars, svcVars, ddVars, ckVars, cfVars, sdVars, hvVars,
                   scVars, ldVars, rpVars, asVars>>

SpecPipeOrder == Init /\ [][PpOrderNext]_vars

(***************************************************************************)
(* The checkpoint manager under the coordinator's calls.  Each call runs   *)
(* under the write lock of the manager and is one step.                    *)
(***************************************************************************)
\* CheckpointManager::record_success(source_id, batch_count, cursor).
CkRecordSuccess(src, evs, cursor) ==
    /\ ck_sum[src] + Len(evs) <= MaxCount
    /\ ck_sources' = [ck_sources EXCEPT ![src] = CheckpointRecordSuccess(@, evs, cursor)]
    /\ ck_last_fetch_at' = [ck_last_fetch_at EXCEPT ![src] = LastFetchAfterSuccess(@, ck_now)]
    /\ ck_sum' = [ck_sum EXCEPT ![src] = @ + Len(evs)]
    /\ ck_errs' = [ck_errs EXCEPT ![src] = 0]
    /\ ck_last_success' = [ck_last_success EXCEPT ![src] =
                              Some([cursor |-> cursor, count |-> Len(evs)])]
    /\ UNCHANGED ck_now

\* CheckpointManager::record_error(source_id, error).
CkRecordError(src) ==
    /\ ck_errs[src] < MaxTally
    /\ ck_sources' = [ck_sources EXCEPT ![src] = CheckpointRecordError(@)]
    /\ ck_last_fetch_at' = [ck_last_fetch_at EXCEPT ![src] = LastFetchAfterError(@, ck_now)]
    /\ ck_errs' = [ck_errs EXCEPT ![src] = @ + 1]
    /\ UNCHANGED <<ck_now, ck_sum, ck_last_success>>

\* Utc::now: the wall clock moves on.
CkTick ==
    /\ ck_now < MaxNow
    /\ ck_now' = ck_now + 1
    /\ UNCHANGED <<ck_sources, ck_last_fetch_at, ck_sum, ck_errs, ck_last_success>>

CkNext ==
    /\ \/ \E src \in CkSources, evs \in Batches, cursor \in CkCursors :
             CkRecordSuccess(src, evs, cursor)
       \/ \E src \in CkSources : CkRecordError(src)
       \/ CkTick
    /\ UNCHANGED <<cbVars, exVars, svcVars, ddVars, ppVars, cfVars, sdVars, hvVars, lateVars>>

SpecCheckpoint == Init /\ [][CkNext]_vars

(***************************************************************************)
(* The checkpoint manager and its file: construction, the record calls,    *)
(* the steps of save_to_file, and a crash of the process between any two.  *)
(***************************************************************************)
cfGhosts == <<cf_installed, cf_committed, cf_last_save>>

\* A data directory that already holds a checkpoint.json the service did not
\* write whole.
CfInstall(data) ==
    /\ cf_pc = "none"
    /\ cf_restarts = 0
    /\ ~cf_fs[FilePath].exists
    /\ cf_fs' = [cf_fs EXCEPT ![FilePath] = FileOf(data)]
    /\ cf_installed' = FileOf(data)
    /\ cf_committed' = FileOf(data)
    /\ UNCHANGED <<cf_pc, cf_unsynced, cf_state, cf_dirty, cf_now, cf_next_sid,
                   cf_last_save, cf_loaded, cf_records, cf_restarts>>

\* CheckpointManager::new: load the file if it is there and parses, start
\* from CheckpointState::default() otherwise.
CfNew ==
    /\ cf_pc \in {"none", "down"}
    /\ cf_restarts < MaxRestarts
    /\ LET f == cf_fs[FilePath]
           loads == f.exists /\ ParseOk(f.data)
       IN  /\ cf_state' = IF loads THEN Parse(f.data) ELSE DefaultState(cf_next_sid)
           /\ cf_next_sid' = IF loads THEN cf_next_sid ELSE cf_next_sid + 1
    /\ cf_pc' = "ready"
    /\ cf_dirty' = FALSE
    /\ cf_loaded' = TRUE
    /\ cf_restarts' = cf_restarts + 1
    /\ UNCHANGED <<cf_fs, cf_unsynced, cf_now, cfGhosts, cf_records>>

\* CheckpointManager::record_success(source_id, batch_count, cursor).
CfRecordSuccess(src, evs, cursor) ==
    /\ cf_pc = "ready"
    /\ cf_records < MaxRecords
    /\ cf_state' = [cf_state EXCEPT
                       !.sources[src] = CheckpointRecordSuccess(@, evs, cursor),
                       !.last_fetch_at[src] = LastFetchAfterSuccess(@, cf_now)]
    /\ cf_dirty' = TRUE
    /\ cf_loaded' = FALSE
    /\ cf_records' = cf_records + 1
    /\ UNCHANGED <<cf_pc, cf_fs, cf_unsynced, cf_now, cf_next_sid, cfGhosts,
                   cf_restarts>>

\* CheckpointManager::record_error(source_id, error).
CfRecordError(src) ==
    /\ cf_pc = "ready"
    /\ cf_records < MaxRecords
    /\ cf_state' = [cf_state EXCEPT
                       !.sources[src] = CheckpointRecordError(@),
                       !.last_fetch_at[src] = LastFetchAfterError(@, cf_now)]
    /\ cf_dirty' = TRUE
    /\ cf_loaded' = FALSE
    /\ cf_records' = cf_records + 1
    /\ UNCHANGED <<cf_pc, cf_fs, cf_unsynced, cf_now, cf_next_sid, cfGhosts,
                   cf_restarts>>

\* save() -> save_to_file: File::create(&temp_path) makes or truncates.
CfSaveCreate ==
    /\ cf_pc = "ready"
    /\ cf_pc' = "created"
    /\ cf_fs' = [cf_fs EXCEPT ![TempPath] = FileOf(<<>>)]
    /\ cf_unsynced' = cf_unsynced \cup {TempPath}
    /\ UNCHANGED <<cf_state, cf_dirty, cf_now, cf_next_sid, cfGhosts, cf_loaded,
                   cf_records, cf_restarts>>

\* file.write_all(json.as_bytes()).
CfSaveWrite ==
    /\ cf_pc = "created"
    /\ cf_pc' = "written"
    /\ cf_fs' = [cf_fs EXCEPT ![TempPath] = FileOf(Serialize(cf_state))]
    /\ UNCHANGED <<cf_unsynced, cf_state, cf_dirty, cf_now, cf_next_sid, cfGhosts,
                   cf_loaded, cf_records, cf_restarts>>

\* file.sync_all().
CfSaveSync ==
    /\ cf_pc = "written"
    /\ cf_pc' = "synced"
    /\ cf_unsynced' = cf_unsynced \ {TempPath}
    /\ UNCHANGED <<cf_fs, cf_state, cf_dirty, cf_now, cf_next_sid, cfGhosts,
                   cf_loaded, cf_records, cf_restarts>>

\* fs::rename(&temp_path, &self.file_path), one atomic step of the file
\* system; back in save(): dirty = false.
CfSaveRename ==
    /\ cf_pc = "synced"
    /\ cf_pc' = "ready"
    /\ cf_fs' = [p \in DOMAIN cf_fs |->
                    IF p = FilePath THEN cf_fs[TempPath]
                    ELSE IF p = TempPath THEN NoFile ELSE cf_fs[p]]
    /\ cf_committed' = FileOf(Serialize(cf_state))
    /\ cf_last_save' = Some(cf_state)
    /\ cf_dirty' = FALSE
    /\ UNCHANGED <<cf_unsynced, cf_state, cf_now, cf_next_sid, cf_installed,
                   cf_loaded, cf_records, cf_restarts>>

\* One of the awaits of save_to_file returns Err: save() passes it on and
\* leaves dirty as it is.
CfSaveFails ==
    /\ cf_pc \in {"created", "written", "synced"}
    /\ cf_pc' = "ready"
    /\ UNCHANGED <<cf_fs, cf_unsynced, cf_state, cf_dirty, cf_now, cf_next_sid,
                   cfGhosts, cf_loaded, cf_records, cf_restarts>>

\* The process dies.  Of a file that was not synced, any leading part of
\* what was written may be on the disk.
CfCrash ==
    /\ cf_pc \notin {"none", "down"}
    /\ cf_pc' = "down"
    /\ \E n \in TornLengths(Len(cf_fs[TempPath].data)) :
          cf_fs' = IF TempPath \in cf_unsynced
                      THEN [cf_fs EXCEPT ![TempPath] =
                               FileOf(SubSeq(cf_fs[TempPath].data, 1, n))]
                      ELSE cf_fs
    /\ cf_unsynced' = {}
    /\ cf_state' = DefaultState(0)
    /\ cf_dirty' = FALSE
    /\ cf_loaded' = FALSE
    /\ UNCHANGED <<cf_now, cf_next_sid, cf_installed, cf_committed, cf_last_save,
                   cf_records, cf_restarts>>

\* Utc::now: the wall clock moves on.
CfTick ==
    /\ cf_now < MaxNow
    /\ cf_now' = cf_now + 1
    /\ UNCHANGED <<cf_pc, cf_fs, cf_unsynced, cf_state, cf_dirty, cf_next_sid,
                   cfGhosts, cf_loaded, cf_records, cf_restarts>>

CfNext ==
    /\ \/ \E data \in ForeignFiles : CfInstall(data)
       \/ CfNew
       \/ \E src \in CkSources, cursor \in CkCursors :
             CfRecordSuccess(src, <<"a">>, cursor)
       \/ \E src \in CkSources : CfRecordError(src)
       \/ CfSaveCreate
       \/ CfSaveWrite
       \/ CfSaveSync
       \/ CfSaveRename
       \/ CfSaveFails
       \/ CfCrash
       \/ CfTick
    /\ UNCHANGED <<cbVars, exVars, svcVars, ddVars, ppVars, ckVars, sdVars, hvVars, lateVars>>

SpecCheckpointFile == Init /\ [][CfNext]_vars

(***************************************************************************)
(* Shutdown (main.rs, harvester.rs): the signal, the shutdown handler, the *)
(* tasks of run_continuous reading `running`, and run_pipeline's main      *)
(* loop.  Every await is a point where the other tasks can run.            *)
(***************************************************************************)
\* run_daemon with --daemon: the handler task is spawned, run_continuous
\* spawns the harvesters and the checkpoint saver.
SdStartDaemon ==
    /\ sd_mode = "none"
    /\ sd_mode' = "daemon"
    /\ sd_handler' = "waiting"
    /\ sd_task' = [t \in SdTasks |-> SdTask("tick", 0)]
    /\ UNCHANGED <<sd_signal, sd_running, sd_main, sd_proc, sd_dirty, sd_mem,
                   sd_file, sd_late_fetch>>

\* run_pipeline: the handler task is spawned and the main loop starts; no
\* harvester task is spawned.
SdStartPipeline ==
    /\ sd_mode = "none"
    /\ sd_mode' = "pipeline"
    /\ sd_handler' = "waiting"
    /\ sd_main' = "tick"
    /\ UNCHANGED <<sd_signal, sd_running, sd_task, sd_proc, sd_dirty, sd_mem,
                   sd_file, sd_late_fetch>>

\* Ctrl-C or SIGTERM arrives.
SdSignal ==
    /\ sd_mode # "none"
    /\ ~sd_signal
    /\ sd_signal' = TRUE
    /\ UNCHANGED <<sd_mode, sd_handler, sd_running, sd_task, sd_main, sd_proc,
                   sd_dirty, sd_mem, sd_file, sd_late_fetch>>

\* shutdown_signal returns in the handler task; in pipeline mode
\* pipeline.shutdown() runs first.
SdHandlerWakes ==
    /\ sd_signal
    /\ sd_handler = "waiting"
    /\ sd_handler' = "shutdown"
    /\ UNCHANGED <<sd_mode, sd_signal, sd_running, sd_task, sd_main, sd_proc,
                   sd_dirty, sd_mem, sd_file, sd_late_fetch>>

\* Harvester::shutdown: *running = false, then sleep(500 ms).
SdSetRunningFalse ==
    /\ sd_handler = "shutdown"
    /\ sd_handler' = "sleeping"
    /\ sd_running' = FALSE
    /\ UNCHANGED <<sd_mode, sd_signal, sd_task, sd_main, sd_proc, sd_dirty,
                   sd_mem, sd_file, sd_late_fetch>>

\* Harvester::shutdown after the sleep: save_on_shutdown saves if dirty.
SdSaveOnShutdown ==
    /\ sd_handler = "sleeping"
    /\ sd_handler' = "done"
    /\ sd_file' = IF sd_dirty THEN sd_mem ELSE sd_file
    /\ sd_dirty' = FALSE
    /\ UNCHANGED <<sd_mode, sd_signal, sd_running, sd_task, sd_main, sd_proc,
                   sd_mem, sd_late_fetch>>

\* ticker.tick().await returns in a task's loop.
SdTickFires(t) ==
    /\ sd_task[t].pc = "tick"
    /\ sd_task' = [sd_task EXCEPT ![t] = SdTask("check", 0)]
    /\ UNCHANGED <<sd_mode, sd_signal, sd_handler, sd_running, sd_main, sd_proc,
                   sd_dirty, sd_mem, sd_file, sd_late_fetch>>

\* if !*running.read().await { break }, the one place a task reads the flag.
SdCheckRunning(t) ==
    /\ sd_task[t].pc = "check"
    /\ sd_task' = [sd_task EXCEPT ![t] =
                      IF ~sd_running THEN SdTask("stopped", 0)
                      ELSE IF t = "saver" THEN SdTask("save", 0)
                      ELSE SdTask("start", 1)]
    /\ UNCHANGED <<sd_mode, sd_signal, sd_handler, sd_running, sd_main, sd_proc,
                   sd_dirty, sd_mem, sd_file, sd_late_fetch>>

\* The task after one source: the next source of the cycle, or the ticker.
SdAfterSource(t) ==
    IF sd_task[t].k < Len(SdSources(t)) THEN SdTask("start", sd_task[t].k + 1)
    ELSE SdTask("tick", 0)

\* cb.allow_request() refuses: `continue`.
SdBreakerRefuses(t) ==
    /\ t \in SdHarvesters
    /\ sd_task[t].pc = "start"
    /\ sd_task' = [sd_task EXCEPT ![t] = SdAfterSource(t)]
    /\ UNCHANGED <<sd_mode, sd_signal, sd_handler, sd_running, sd_main, sd_proc,
                   sd_dirty, sd_mem, sd_file, sd_late_fetch>>

\* The breaker admits, get_since reads the checkpoint, source.fetch(options)
\* is called.
SdFetchStart(t) ==
    /\ t \in SdHarvesters
    /\ sd_task[t].pc = "start"
    /\ sd_task' = [sd_task EXCEPT ![t].pc = "fetch"]
    /\ sd_late_fetch' = (sd_late_fetch \/ ~sd_running)
    /\ UNCHANGED <<sd_mode, sd_signal, sd_handler, sd_running, sd_main, sd_proc,
                   sd_dirty, sd_mem, sd_file>>

\* source.fetch returns: record_success or record_error on the checkpoint,
\* either of which sets dirty.
SdFetchReturns(t) ==
    /\ t \in SdHarvesters
    /\ sd_task[t].pc = "fetch"
    /\ sd_task' = [sd_task EXCEPT ![t] = SdAfterSource(t)]
    /\ sd_mem' = Tally(sd_mem)
    /\ sd_dirty' = TRUE
    /\ UNCHANGED <<sd_mode, sd_signal, sd_handler, sd_running, sd_main, sd_proc,
                   sd_file, sd_late_fetch>>

\* The checkpoint saver: maybe_save saves if dirty and the auto-save
\* interval has passed since the last save.
SdMaybeSave(elapsed) ==
    /\ sd_task["saver"].pc = "save"
    /\ sd_task' = [sd_task EXCEPT !["saver"] = SdTask("tick", 0)]
    /\ sd_file' = IF sd_dirty /\ elapsed THEN sd_mem ELSE sd_file
    /\ sd_dirty' = (sd_dirty /\ ~elapsed)
    /\ UNCHANGED <<sd_mode, sd_signal, sd_handler, sd_running, sd_main, sd_proc,
                   sd_mem, sd_late_fetch>>

\* run_pipeline's loop: interval.tick().await, then fetch_from_source("all").
SdMainTick ==
    /\ sd_main = "tick"
    /\ sd_main' = "fetch"
    /\ UNCHANGED <<sd_mode, sd_signal, sd_handler, sd_running, sd_task, sd_proc,
                   sd_dirty, sd_mem, sd_file, sd_late_fetch>>

\* run_pipeline's loop: the events are submitted (an Err of submit is
\* logged), the stats are read, and the loop goes round.  It has no exit.
SdMainSubmits ==
    /\ sd_main = "fetch"
    /\ sd_main' = "tick"
    /\ UNCHANGED <<sd_mode, sd_signal, sd_handler, sd_running, sd_task, sd_proc,
                   sd_dirty, sd_mem, sd_file, sd_late_fetch>>

\* run_daemon: run_continuous has joined every task, the handler task has
\* finished, main returns.
SdExit ==
    /\ sd_mode = "daemon"
    /\ sd_proc = "running"
    /\ \A t \in SdTasks : sd_task[t].pc = "stopped"
    /\ sd_handler = "done"
    /\ sd_proc' = "terminated"
    /\ UNCHANGED <<sd_mode, sd_signal, sd_handler, sd_running, sd_task, sd_main,
                   sd_dirty, sd_mem, sd_file, sd_late_fetch>>

sdOthers == <<cbVars, exVars, svcVars, ddVars, ppVars, ckVars, cfVars, hvVars, lateVars>>

SdNext ==
    /\ \/ SdStartDaemon
       \/ SdStartPipeline
       \/ SdSignal
       \/ SdHandlerWakes
       \/ SdSetRunningFalse
       \/ SdSaveOnShutdown
       \/ \E t \in SdTasks : SdTickFires(t)
       \/ \E t \in SdTasks : SdCheckRunning(t)
       \/ \E t \in SdHarvesters : SdBreakerRefuses(t)
       \/ \E t \in SdHarvesters : SdFetchStart(t)
       \/ \E t \in SdHarvesters : SdFetchReturns(t)
       \/ \E elapsed \in BOOLEAN : SdMaybeSave(elapsed)
       \/ SdMainTick
       \/ SdMainSubmits
       \/ SdExit
    /\ UNCHANGED sdOthers

SpecShutdown == Init /\ [][SdNext]_vars

\* The runtime keeps polling every task, tickers fire, fetches return and
\* the handler's sleep ends; nothing is assumed about the signal.
FairSpecShutdown ==
    /\ Init
    /\ [][SdNext]_vars
    /\ WF_vars(SdHandlerWakes /\ UNCHANGED sdOthers)
    /\ WF_vars(SdSetRunningFalse /\ UNCHANGED sdOthers)
    /\ WF_vars(SdSaveOnShutdown /\ UNCHANGED sdOthers)
    /\ \A t \in SdTasks :
          /\ WF_vars(SdTickFires(t) /\ UNCHANGED sdOthers)
          /\ WF_vars(SdCheckRunning(t) /\ UNCHANGED sdOthers)
    /\ \A t \in SdHarvesters :
          /\ WF_vars((SdBreakerRefuses(t) \/ SdFetchStart(t)) /\ UNCHANGED sdOthers)
          /\ WF_vars(SdFetchReturns(t) /\ UNCHANGED sdOthers)
    /\ WF_vars((\E elapsed \in BOOLEAN : SdMaybeSave(elapsed)) /\ UNCHANGED sdOthers)
    /\ WF_vars(SdMainTick /\ UNCHANGED sdOthers)
    /\ WF_vars(SdMainSubmits /\ UNCHANGED sdOthers)
    /\ WF_vars(SdExit /\ UNCHANGED sdOthers)

(***************************************************************************)
(* One source's SourceHttpClient inside the coordinator's cycle: the       *)
(* coordinator asks the shared breaker, the client asks it again, takes a  *)
(* rate-limiter cell and runs execute(); both record the outcome.  A       *)
(* second kind of caller hands a Request of its own to execute().          *)
(***************************************************************************)
ScSource == "newsapi"

scFrame == <<svcVars, ddVars, ppVars, ckVars, cfVars, sdVars, hvVars, ldVars, pp_trace, rpVars, asVars>>

\* The executor variables of the call go back to their idle values.
ScExecutorIdle ==
    /\ ex_pc' = [ex_pc EXCEPT ![ScSource] = "idle"]
    /\ attempt' = [attempt EXCEPT ![ScSource] = 0]
    /\ delay' = [delay EXCEPT ![ScSource] = 0]
    /\ outcome' = [outcome EXCEPT ![ScSource] = NoOutcome]
    /\ result' = [result EXCEPT ![ScSource] = "none"]
    /\ sent' = [sent EXCEPT ![ScSource] = 0]
    /\ retried' = [retried EXCEPT ![ScSource] = 0]
    /\ UNCHANGED <<semaphore, permit>>

\* ResilientHttpClient::new(config) and SourceHttpClient::new.
ScNew(cfg) ==
    /\ sc_pc = "none"
    /\ sc_cfg' = cfg
    /\ sc_pc' = "idle"
    /\ UNCHANGED <<sc_req, sc_wire, sc_tokens, sc_result, cbVars, exVars>>

\* The coordinator's own cb.allow_request() at the top of a cycle; a
\* refusal skips the source.
ScCycleStart ==
    /\ sc_pc = "idle"
    /\ LET a == AllowRequest(cb)
       IN  /\ cb' = a.cb
           /\ CbHistory(cb, a.cb, Call("allow_request", a.ok, cb.state))
           /\ sc_pc' = IF a.ok THEN "fetch" ELSE "idle"
    /\ UNCHANGED <<cb_pc, sc_cfg, sc_req, sc_wire, sc_tokens, sc_result, exVars>>

\* get(url) (query = None) or get_with_query(url, query): the entry of
\* execute_with_protection.
ScGet(query) ==
    /\ sc_pc = "fetch"
    /\ LET e == ProtectionEntry(cb)
       IN  /\ cb' = e.cb
           /\ CbHistory(cb, e.cb, Call("allow_request", e.admitted, cb.state))
           /\ sc_pc' = IF e.admitted THEN "until_ready" ELSE "returned"
           /\ sc_result' = e.result
    /\ sc_req' = Some(GetRequest(query))
    /\ UNCHANGED <<cb_pc, sc_cfg, sc_wire, sc_tokens, exVars>>

\* rate_limiter.until_ready() takes a cell; build_request() and the call of
\* client.execute(request), which waits for its permit.
ScUntilReady ==
    /\ sc_pc = "until_ready"
    /\ sc_tokens > 0
    /\ sc_tokens' = sc_tokens - 1
    /\ sc_pc' = "execute"
    /\ ex_pc' = [ex_pc EXCEPT ![ScSource] = "acquire"]
    /\ UNCHANGED <<sc_cfg, sc_req, sc_wire, sc_result, cbVars,
                   semaphore, permit, attempt, delay, outcome, result, sent, retried>>

\* The rate limiter gets a cell back as time passes.
ScReplenish ==
    /\ sc_pc # "none"
    /\ sc_tokens < rate_limit_rpm
    /\ sc_tokens' = sc_tokens + 1
    /\ UNCHANGED <<sc_cfg, sc_pc, sc_req, sc_wire, sc_result, cbVars, exVars>>

\* A caller of the public execute(request) with a Request of its own.
ScExecute(request) ==
    /\ sc_pc = "idle"
    /\ sc_req' = Some(request)
    /\ sc_pc' = "direct"
    /\ ex_pc' = [ex_pc EXCEPT ![ScSource] = "acquire"]
    /\ UNCHANGED <<sc_cfg, sc_wire, sc_tokens, sc_result, cbVars,
                   semaphore, permit, attempt, delay, outcome, result, sent, retried>>

\* The steps of execute() (ExAcquire .. ExWake) for this call; an attempt
\* puts the request it builds on the wire.
ScExecuteStep ==
    /\ sc_pc \in {"execute", "direct"}
    /\ \/ ExAcquire(ScSource) /\ UNCHANGED sc_wire
       \/ ExSend(ScSource) /\ sc_wire' = Some(RequestOfAttempt(sc_req[1]))
       \/ (\E o \in ScOutcomes : ExRespond(ScSource, o)) /\ UNCHANGED sc_wire
       \/ ExWake(ScSource) /\ UNCHANGED sc_wire
    /\ UNCHANGED <<sc_cfg, sc_pc, sc_req, sc_tokens, sc_result, cbVars>>

\* execute() has returned to execute_with_protection: Ok is recorded as a
\* success on the breaker, Err as a failure, and the result is passed on.
ScRecord ==
    /\ sc_pc = "execute"
    /\ ex_pc[ScSource] = "done"
    /\ LET ok == result[ScSource] = "Ok"
           d == IF ok THEN RecordSuccess(cb) ELSE RecordFailure(cb)
       IN  /\ cb' = d
           /\ CbHistory(cb, d, Call(IF ok THEN "record_success" ELSE "record_failure",
                                    FALSE, cb.state))
    /\ sc_result' = result[ScSource]
    /\ sc_pc' = "returned"
    /\ UNCHANGED <<cb_pc, sc_cfg, sc_req, sc_wire, sc_tokens, exVars>>

\* The coordinator's Ok / Err arm: cb.record_success() or
\* cb.record_failure() on the same breaker, and the cycle is over.
ScCycleEnd ==
    /\ sc_pc = "returned"
    /\ LET ok == sc_result = "Ok"
           d == IF ok THEN RecordSuccess(cb) ELSE RecordFailure(cb)
       IN  /\ cb' = d
           /\ CbHistory(cb, d, Call(IF ok THEN "record_success" ELSE "record_failure",
                                    FALSE, cb.state))
    /\ sc_pc' = "idle"
    /\ sc_result' = "none"
    /\ sc_req' = None
    /\ sc_wire' = None
    /\ ScExecutorIdle
    /\ UNCHANGED <<cb_pc, sc_cfg, sc_tokens>>

\* The direct caller has its answer.
ScDirectReturn ==
    /\ sc_pc = "direct"
    /\ ex_pc[ScSource] = "done"
    /\ sc_pc' = "idle"
    /\ sc_req' = None
    /\ sc_wire' = None
    /\ ScExecutorIdle
    /\ UNCHANGED <<sc_cfg, sc_tokens, sc_result, cbVars>>

\* Time passes between two cycles.
ScTick ==
    /\ sc_pc = "idle"
    /\ cb.last_failure_time # None
    /\ cb' = Older(cb)
    /\ CbHistory(cb, cb', Call("tick", FALSE, cb.state))
    /\ UNCHANGED <<cb_pc, scVars, exVars>>

ScNext ==
    /\ \/ \E cfg \in HttpClientConfigs : ScNew(cfg)
       \/ ScCycleStart
       \/ \E q \in {None, Some("q")} : ScGet(q)
       \/ ScUntilReady
       \/ ScReplenish
       \/ \E r \in Requests : ScExecute(r)
       \/ ScExecuteStep
       \/ ScRecord
       \/ ScCycleEnd
       \/ ScDirectReturn
       \/ ScTick
    /\ UNCHANGED scFrame

SpecClient == Init /\ [][ScNext]_vars

(***************************************************************************)
(* The load of the staged pipeline: how many items each channel, each pool *)
(* loop, the router and the worker tasks of each stage hold.  Items are    *)
(* counted, not told apart.  WorkerPool::run receives an item from its     *)
(* channel first and awaits a permit afterwards.                           *)
(***************************************************************************)
\* A Sender whose Receiver was dropped by spawn_workers.
LdClosed(q) == q \in PpStages /\ ~PoolSpawned(q, ld_cfg)

\* Pipeline::new.
LdNew(enrich, embed) ==
    /\ ~ld_cfg.built
    /\ ld_cfg' = [built |-> TRUE, enable_enrich |-> enrich, enable_embed |-> embed]
    /\ UNCHANGED <<ld_q, ld_held, ld_active>>

\* Pipeline::submit: the fetch channel accepts an item.
LdSubmit ==
    /\ ld_cfg.built
    /\ ld_q["fetch"] < channel_capacity
    /\ ld_q' = [ld_q EXCEPT !["fetch"] = @ + 1]
    /\ UNCHANGED <<ld_cfg, ld_held, ld_active>>

\* WorkerPool::run: `Some(item) = self.rx.recv()`.
LdPoolRecv(s) ==
    /\ ld_cfg.built /\ PoolSpawned(s, ld_cfg)
    /\ ld_held[s] = 0
    /\ ld_q[InQ(s)] > 0
    /\ ld_q' = [ld_q EXCEPT ![InQ(s)] = @ - 1]
    /\ ld_held' = [ld_held EXCEPT ![s] = 1]
    /\ UNCHANGED <<ld_cfg, ld_active>>

\* WorkerPool::run: acquire_owned() gives a permit and the worker task is
\* spawned with the item.
LdPoolSpawn(s) ==
    /\ ld_held[s] = 1
    /\ ld_active[s] < WorkerCount(s)
    /\ ld_held' = [ld_held EXCEPT ![s] = 0]
    /\ ld_active' = [ld_active EXCEPT ![s] = @ + 1]
    /\ UNCHANGED <<ld_cfg, ld_q>>

\* Worker task of normalize, enrich or embed: process, tx.send(processed),
\* drop(permit).
LdWorkerSend(s) ==
    /\ s # "publish"
    /\ ld_active[s] > 0
    /\ LET out == OutQ(s, ld_cfg)
       IN  /\ LdClosed(out) \/ ld_q[out] < channel_capacity
           /\ ld_q' = IF LdClosed(out) THEN ld_q ELSE [ld_q EXCEPT ![out] = @ + 1]
    /\ ld_active' = [ld_active EXCEPT ![s] = @ - 1]
    /\ UNCHANGED <<ld_cfg, ld_held>>

\* Worker task of publish: PublishStage::process, no output, drop(permit).
LdPublishDone ==
    /\ ld_active["publish"] > 0
    /\ ld_active' = [ld_active EXCEPT !["publish"] = @ - 1]
    /\ UNCHANGED <<ld_cfg, ld_q, ld_held>>

\* spawn_router: `Some(item) = rx.recv()`.
LdRouterRecv ==
    /\ ld_cfg.built
    /\ ld_held["router"] = 0
    /\ ld_q["normalize"] > 0
    /\ ld_q' = [ld_q EXCEPT !["normalize"] = @ - 1]
    /\ ld_held' = [ld_held EXCEPT !["router"] = 1]
    /\ UNCHANGED <<ld_cfg, ld_active>>

\* spawn_router: tx.send(item).
LdRouterSend ==
    /\ ld_held["router"] = 1
    /\ LET out == NextAfterNormalize(ld_cfg)
       IN  /\ LdClosed(out) \/ ld_q[out] < channel_capacity
           /\ ld_q' = IF LdClosed(out) THEN ld_q ELSE [ld_q EXCEPT ![out] = @ + 1]
    /\ ld_held' = [ld_held EXCEPT !["router"] = 0]
    /\ UNCHANGED <<ld_cfg, ld_active>>

LdNext ==
    /\ \/ \E enrich \in BOOLEAN, embed \in BOOLEAN : LdNew(enrich, embed)
       \/ LdSubmit
       \/ \E s \in PpStages : LdPoolRecv(s)
       \/ \E s \in PpStages : LdPoolSpawn(s)
       \/ \E s \in PpStages : LdWorkerSend(s)
       \/ LdPublishDone
       \/ LdRouterRecv
       \/ LdRouterSend
    /\ UNCHANGED <<cbVars, exVars, svcVars, ddVars, ppVars, ckVars, cfVars, sdVars,
                   hvVars, scVars, pp_trace, rpVars, asVars>>

SpecPipeLoad == Init /\ [][LdNext]_vars

(***************************************************************************)
(* ResilientPublisher::publish for one event after the other, over a bus   *)
(* that answers each call as it likes.                                     *)
(***************************************************************************)
\* publish(event) is called: the first pass of the loop, attempt = 0.
RpPublish ==
    /\ rp_pc = "idle"
    /\ Len(rp_events) < MaxPublishes
    /\ rp_pc' = "call"
    /\ rp_attempt' = 0
    /\ rp_last_error' = None
    /\ rp_result' = "none"
    /\ rp_calls' = 0
    /\ rp_waits' = <<>>
    /\ UNCHANGED <<publish_total, rp_events>>

\* self.bus.publish(event).await comes back: return on success, otherwise
\* sleep and loop if passes are left, else count the failure and bail.
RpBusAnswers(ans) ==
    /\ rp_pc = "call"
    /\ rp_calls' = rp_calls + 1
    /\ IF ans = "success"
       THEN /\ rp_pc' = "idle"
            /\ rp_result' = "ok"
            /\ publish_total' = [publish_total EXCEPT !.success = @ + 1]
            /\ rp_events' = Append(rp_events, "ok")
            /\ UNCHANGED <<rp_waits, rp_last_error>>
       ELSE IF RetriesLeft(rp_attempt)
       THEN /\ rp_pc' = "sleep"
            /\ rp_waits' = Append(rp_waits, PublishRetryDelay(rp_attempt))
            /\ rp_last_error' = Some(ans)
            /\ UNCHANGED <<rp_result, publish_total, rp_events>>
       ELSE /\ rp_pc' = "idle"
            /\ rp_result' = "err"
            /\ publish_total' = [publish_total EXCEPT !.failure = @ + 1]
            /\ rp_events' = Append(rp_events, "err")
            /\ rp_last_error' = Some(ans)
            /\ UNCHANGED rp_waits
    /\ UNCHANGED rp_attempt

\* The sleep is over: the next pass of the loop.
RpWake ==
    /\ rp_pc = "sleep"
    /\ rp_attempt' = rp_attempt + 1
    /\ rp_pc' = "call"
    /\ UNCHANGED <<rp_last_error, rp_result, publish_total, rp_calls, rp_waits, rp_events>>

RpNext ==
    /\ \/ RpPublish
       \/ \E ans \in BusAnswers : RpBusAnswers(ans)
       \/ RpWake
    /\ UNCHANGED <<cbVars, exVars, svcVars, ddVars, ppVars, ckVars, cfVars, sdVars,
                   hvVars, scVars, ldVars, pp_trace, asVars>>

SpecPublisher == Init /\ [][RpNext]_vars

(***************************************************************************)
(* The save policy under the record calls, the saver's maybe_save, the     *)
(* shutdown path's save_on_shutdown, a file system that may refuse, and    *)
(* the clock.  Every call runs under the manager's write lock.             *)
(***************************************************************************)
\* record_success / record_error: the state takes the update, dirty = true.
AsRecord ==
    /\ as_state < MaxUpdates
    /\ as_state' = as_state + 1
    /\ as_dirty' = TRUE
    /\ as_call' = NoSaveCall
    /\ UNCHANGED <<as_last_save, as_now, as_file>>

\* save(): save_to_file, then last_save = now and dirty = false; an Err of
\* save_to_file is returned before either assignment.
AsSave(op, ok) ==
    /\ as_file' = IF ok THEN as_state ELSE as_file
    /\ as_last_save' = IF ok THEN as_now ELSE as_last_save
    /\ as_dirty' = IF ok THEN FALSE ELSE as_dirty
    /\ as_call' = SaveCall(op, TRUE, ok)

AsMaybeSave(ok) ==
    /\ IF MaybeSaveDue(as_dirty, as_now, as_last_save)
       THEN AsSave("maybe_save", ok)
       ELSE /\ as_call' = SaveCall("maybe_save", FALSE, FALSE)
            /\ UNCHANGED <<as_file, as_last_save, as_dirty>>
    /\ UNCHANGED <<as_now, as_state>>

AsSaveOnShutdown(ok) ==
    /\ IF ShutdownSaveDue(as_dirty)
       THEN AsSave("save_on_shutdown", ok)
       ELSE /\ as_call' = SaveCall("save_on_shutdown", FALSE, FALSE)
            /\ UNCHANGED <<as_file, as_last_save, as_dirty>>
    /\ UNCHANGED <<as_now, as_state>>

\* Utc::now moves on.
AsTick ==
    /\ as_now < MaxClock
    /\ as_now' = as_now + 1
    /\ as_call' = NoSaveCall
    /\ UNCHANGED <<as_dirty, as_last_save, as_state, as_file>>

AsNext ==
    /\ \/ AsRecord
       \/ \E ok \in BOOLEAN : AsMaybeSave(ok)
       \/ \E ok \in BOOLEAN : AsSaveOnShutdown(ok)
       \/ AsTick
    /\ UNCHANGED <<cbVars, exVars, svcVars, ddVars, ppVars, ckVars, cfVars, sdVars,
                   hvVars, scVars, ldVars, pp_trace, rpVars>>

SpecAutoSave == Init /\ [][AsNext]_vars

(***************************************************************************)
(* Claims about the circuit breaker, checked under SpecCB                  *)
(***************************************************************************)

\* C4: the breaker stays Closed (and admits) while fewer than
\* failure_threshold failures were recorded since the last success, opens
\* exactly on the failure_threshold-th, and while Open refuses every
\* allow_request() until open_duration has elapsed since it opened.
C4_OpensExactlyAtThreshold ==
    [][ /\ (cb.state = "Closed" =>
                /\ fails_since_success < failure_threshold
                /\ cb.failure_count = fails_since_success)
        /\ (last_call'.op = "record_failure" /\ cb.state = "Closed" =>
                (cb'.state = "Open" <=> fails_since_success' = failure_threshold))
        /\ (last_call'.op = "allow_request" /\ cb.state = "Closed" =>
                last_call'.ret /\ cb'.state = "Closed")
        /\ (last_call'.op = "allow_request" /\ cb.state = "Open"
                /\ open_age < open_duration =>
                ~last_call'.ret /\ cb'.state = "Open")
      ]_vars

\* C4 witness: the threshold-th consecutive failure opened the breaker and an
\* allow_request() made before open_duration elapsed was refused.
C4_Witness ==
    /\ cb.state = "Open"
    /\ fails_since_success = failure_threshold
    /\ cb.failure_count = failure_threshold
    /\ cb.trips = 1
    /\ last_call = Call("allow_request", FALSE, "Open")
    /\ open_age = open_duration - 1

\* C5: while the breaker is HalfOpen, at most half_open_max_requests calls of
\* allow_request() have returned true since it last changed state, whatever
\* the order in which the callers run.
C5_HalfOpenAdmitsAtMostMax ==
    cb.state = "HalfOpen" =>
        /\ half_open_admitted <= half_open_max_requests
        /\ cb.half_open_requests = half_open_admitted

\* C5 witness: HalfOpen, all half_open_max_requests slots taken, and a further
\* caller refused.
C5_Witness ==
    /\ cb.state = "HalfOpen"
    /\ half_open_admitted = half_open_max_requests
    /\ last_call = Call("allow_request", FALSE, "HalfOpen")

\* C6: from Open, the first allow_request() after open_duration has elapsed
\* since the last failure moves the breaker to HalfOpen with the half-open
\* counters reset and admits the caller; a record_success() in HalfOpen closes
\* the breaker, with failure and success counters 0, exactly when it is the
\* success_threshold-th since HalfOpen was entered, and leaves it HalfOpen
\* otherwise.
C6_RecoversAtSuccessThreshold ==
    [][ /\ (last_call'.op = "allow_request" /\ cb.state = "Open"
                /\ OpenDurationElapsed(cb) =>
                /\ cb'.state = "HalfOpen"
                /\ last_call'.ret
                /\ cb'.success_count = 0
                /\ cb'.half_open_requests = 1)
        /\ (cb.state = "HalfOpen" =>
                /\ half_open_successes < success_threshold
                /\ cb.success_count = half_open_successes)
        /\ (last_call'.op = "record_success" /\ cb.state = "HalfOpen" =>
                /\ cb'.state \in {"HalfOpen", "Closed"}
                /\ (cb'.state = "Closed" <=>
                        half_open_successes + 1 = success_threshold)
                /\ (cb'.state = "Closed" =>
                        cb'.failure_count = 0 /\ cb'.success_count = 0))
      ]_vars

\* C6 witness: the breaker was closed by a record_success() made in HalfOpen.
C6_Witness ==
    /\ cb.state = "Closed"
    /\ last_call = Call("record_success", FALSE, "HalfOpen")
    /\ cb.failure_count = 0
    /\ cb.total_successes >= success_threshold
    /\ opened_count >= 1

\* C31: record_failure() made while the breaker is Open leaves
\* last_failure_time as it was, so the moment at which allow_request() can
\* first move the breaker to HalfOpen is not postponed: an Open breaker is
\* ready for HalfOpen once open_duration has passed since it opened.
C31_OpenFailureKeepsTimer ==
    /\ [][ last_call'.op = "stamp" /\ cb.state = "Open" =>
                cb'.last_failure_time = cb.last_failure_time ]_vars
    /\ [](cb.state = "Open" /\ open_age >= open_duration => OpenDurationElapsed(cb))

\* C32: one record_failure() in HalfOpen moves the breaker to Open, adds one
\* to trips and zeroes the half-open success count, whatever number of
\* successes HalfOpen had collected; trips equals the number of transitions
\* into Open.  (Counters are compared below the counting bound MaxCount.)
C32_HalfOpenFailureReopens ==
    /\ [][ last_call'.op = "record_failure" /\ cb.state = "HalfOpen" =>
                /\ cb'.state = "Open"
                /\ cb'.success_count = 0
                /\ (cb.trips < MaxCount => cb'.trips = cb.trips + 1) ]_vars
    /\ [](cb.trips = opened_count)

\* C32 witness: a record_failure() found the breaker HalfOpen with
\* success_threshold - 1 successes collected and reopened it, the second trip.
C32_Witness ==
    /\ last_call = Call("record_failure", FALSE, "HalfOpen")
    /\ half_open_lost = success_threshold - 1
    /\ cb.state = "Open"
    /\ cb.success_count = 0
    /\ cb.trips = 2
    /\ opened_count = 2

(***************************************************************************)
(* Claims about the HTTP executor, checked under SpecExec / FairSpecExec   *)
(***************************************************************************)

\* C8: the number of permits held never exceeds max_concurrent_requests,
\* the semaphore's available permits are exactly the ones not held, a call
\* that has not been admitted or that has ended (Ok, error after the
\* retries, or cancellation) holds none, and with no call in progress
\* available_permits() equals max_concurrent_requests.
C8_PermitsBoundedAndReturned ==
    LET holders == {c \in HttpSources : permit[c]}
    IN  /\ Cardinality(holders) <= max_concurrent_requests
        /\ semaphore = max_concurrent_requests - Cardinality(holders)
        /\ \A c \in HttpSources :
              ex_pc[c] \in {"idle", "acquire", "done"} => ~permit[c]
        /\ (\A c \in HttpSources : ex_pc[c] \in {"idle", "done"})
              => semaphore = max_concurrent_requests

\* One call ended with an error after its retries, one was cancelled after
\* it had sent a request, one returned Ok: every permit is back.
C8_Witness ==
    /\ result["newsapi"] = "ApiError" /\ sent["newsapi"] = max_retries + 1
    /\ result["cryptopanic"] = "Cancelled" /\ sent["cryptopanic"] >= 1
    /\ result["x_api"] = "Ok"
    /\ semaphore = max_concurrent_requests

\* C9: when an attempt comes back, the call goes on to another attempt
\* exactly when the outcome is retryable (status 408, 429, 502, 503, 504 or
\* a connect/timeout error) and attempt <= max_retries; otherwise it ends.
\* A 401 or 404 ends it with an Api error at that attempt.  A further
\* request is only ever sent after such a retryable outcome, none is sent
\* once the call has ended, and no call sends more than max_retries + 1.
C9_RetryIffRetryableWithinBudget ==
    [][\A c \in HttpSources :
        LET retryable(o) ==
                \/ o.kind = "status" /\ o.code \in {408, 429, 502, 503, 504}
                \/ o.kind \in {"timeout", "connect"}
        IN  /\ (ex_pc[c] = "wait" /\ ex_pc'[c] # "wait" /\ result'[c] # "Cancelled")
                => /\ ex_pc'[c] \in {"sleep", "done"}
                   /\ (ex_pc'[c] = "sleep")
                         <=> (retryable(outcome'[c]) /\ attempt[c] <= max_retries)
                   /\ (outcome'[c].kind = "status" /\ outcome'[c].code \in {401, 404})
                         => /\ ex_pc'[c] = "done"
                            /\ result'[c] = "ApiError"
                            /\ sent'[c] = attempt[c]
            /\ (sent'[c] > sent[c] /\ sent[c] > 0)
                => /\ retryable(outcome[c])
                   /\ sent[c] <= max_retries
            /\ ex_pc[c] = "done" => sent'[c] <= sent[c]
            /\ sent'[c] <= max_retries + 1
      ]_vars

\* A retryable status came back on the last permitted attempt: the call
\* ended with an Api error after max_retries + 1 requests.
C9_Witness ==
    /\ ex_pc["newsapi"] = "done"
    /\ outcome["newsapi"] = Status(503)
    /\ result["newsapi"] = "ApiError"
    /\ sent["newsapi"] = max_retries + 1
    /\ retried["newsapi"] = max_retries

C33_RefusalChangesNothing ==
    [][ (sc_pc = "fetch" /\ last_call'.op = "allow_request" /\ ~last_call'.ret) =>
            /\ sc_pc' = "returned"
            /\ sc_result' = "CircuitBreakerOpen"
            /\ cb' = cb
            /\ sc_tokens' = sc_tokens
            /\ semaphore' = semaphore /\ permit' = permit
            /\ ex_pc' = ex_pc /\ sent' = sent
            /\ sc_wire' = sc_wire /\ sc_wire = None
      ]_vars

\* C33 witness: the client was refused by a HalfOpen breaker whose slots were
\* all taken, and returned CircuitBreakerOpen.
C33_Witness ==
    /\ sc_pc = "returned"
    /\ sc_result = "CircuitBreakerOpen"
    /\ last_call = Call("allow_request", FALSE, "HalfOpen")
    /\ cb.half_open_requests = half_open_max_requests
    /\ sent[ScSource] = 0
    /\ ~permit[ScSource]

\* C34: every attempt of execute(request), the first and each retry, puts
\* on the wire the request the caller built: same method, URL, headers and
\* body.
C34_AttemptsSendTheRequest ==
    sc_wire # None => sc_wire[1] = sc_req[1]

\* C35: the delay, before jitter, that execute() waits after failed attempt
\* n is min(initial_retry_delay * retry_multiplier^(n-1), max_retry_delay)
\* for the configured retry_multiplier, and never exceeds max_retry_delay.
C35_DelayFollowsMultiplier ==
    ex_pc[ScSource] = "sleep" /\ sc_pc \in {"execute", "direct"} =>
        /\ delay[ScSource] = Backoff(sc_cfg, attempt[ScSource])
        /\ delay[ScSource] <= max_retry_delay

(***************************************************************************)
(* Claims about the dedup store, checked under SpecDedup                   *)
(***************************************************************************)

\* C11: check_and_mark(K) on a key never marked answers "new" and marks K;
\* check_and_mark(K) on a key marked with no eviction or clear() since
\* answers "duplicate".
C11_FirstNewThenDuplicate ==
    [][\A t \in DdTasks :
          LET tk == dd_task[t]
              k  == tk.key[1]
          IN /\ (tk.op = "check_and_mark" /\ tk.pc = "check_mem" /\ dd_task'[t].pc # "check_mem")
                   => /\ k \in intact => (dd_task'[t].pc = "idle" /\ dd_task'[t].ret)
                      /\ k \notin marked => dd_task'[t].pc \in {"add_redis", "mark_mem"}
             /\ (tk.op = "check_and_mark" /\ tk.pc = "mark_mem" /\ dd_task'[t].pc = "idle")
                   => (~dd_task'[t].ret /\ k \in intact' /\ k \in marked')]_vars

\* A check_and_mark has answered "duplicate" for a key still marked, with a
\* second key in the set.
C11_Witness ==
    \E t \in DdTasks :
        /\ dd_task[t].pc = "idle" /\ dd_task[t].op = "check_and_mark"
        /\ dd_task[t].ret /\ ~dd_task[t].flushed
        /\ dd_task[t].key[1] \in intact
        /\ Cardinality(seen) = 2

\* C12: is_duplicate and check_and_mark answer "duplicate" only for a key
\* that mark_seen was called with before (no false positives).
C12_NoFalsePositive ==
    \A t \in DdTasks : dd_task[t].ret => dd_task[t].key[1] \in marked

\* is_duplicate has answered "duplicate" for the key with a canonical URL
\* while the key of the same content without URL is marked too; and an
\* is_duplicate has answered "new" for a marked key (after an eviction).
C12_Witness ==
    /\ \E t \in DdTasks :
          /\ dd_task[t].pc = "idle" /\ dd_task[t].op = "is_duplicate" /\ dd_task[t].ret
          /\ dd_task[t].key[1].canonical_url # None
          /\ [dd_task[t].key[1] EXCEPT !.canonical_url = None] \in marked
    /\ \E t \in DdTasks :
          /\ dd_task[t].pc = "idle" /\ dd_task[t].op = "is_duplicate" /\ ~dd_task[t].ret
          /\ dd_task[t].key[1] \in marked

\* C13: of the check_and_mark calls made with one key with no eviction or
\* clear() since the first of them began, at most one answers "new".
C13_ExactlyOneNew ==
    \A k \in DedupKeys :
        Cardinality({t \in DdTasks :
            /\ dd_task[t].pc = "idle" /\ dd_task[t].op = "check_and_mark"
            /\ dd_task[t].key = Some(k)
            /\ ~dd_task[t].ret /\ ~dd_task[t].flushed}) <= 1

\* C14: the seen set never holds more than max_entries keys, marking into a
\* full set clears it first, and the key marked is in the set when
\* mark_seen returns.
C14_BoundedAndInserted ==
    /\ Cardinality(seen) <= max_entries
    /\ \A t \in DdTasks :
          (dd_task[t].pc = "idle" /\ dd_task[t].op \in {"mark_seen", "check_and_mark"}
             /\ ~dd_task[t].ret /\ CombinedKey(dd_task[t].key[1]) \notin seen)
          => dd_task[t].flushed

\* A mark_seen into a full set has evicted it and left its own key.
C14_Witness ==
    \E t \in DdTasks :
        /\ dd_task[t].pc = "idle" /\ dd_task[t].op = "mark_seen"
        /\ dd_task[t].flushed
        /\ seen = {CombinedKey(dd_task[t].key[1])}
        /\ Cardinality(marked) = Cardinality(DedupKeys)

C16_SuspendsAndCountsAfterTimer ==
    [][LET full == ~pp_closed["fetch"] /\ Len(pp_q["fetch"]) >= channel_capacity
       IN /\ (pp_sub.pc = "idle" /\ (pp_sub' # pp_sub \/ pp_res' # pp_res) /\ full)
                => (pp_sub'.pc = "first_send" /\ pp_res' = pp_res /\ pp_enq' = pp_enq)
          /\ (pp_sub.pc # "idle" /\ pp_res' # pp_res) => ~full
          /\ backpressure_events_total' # backpressure_events_total
                => /\ backpressure_events_total' = backpressure_events_total + 1
                   /\ pp_sub.pc = "first_send" /\ pp_sub'.pc = "second_send"
                   /\ pp_sub'.item = pp_sub.item
                   /\ full]_vars

\* The last submit is suspended on the full channel after its timer fired.
C16_Witness ==
    /\ pp_sub.pc = "second_send"
    /\ pp_sub.item = NumItems
    /\ Len(pp_q["fetch"]) = channel_capacity
    /\ backpressure_events_total = 1

\* C16 as stated: whenever a submit that was suspended on the full channel
\* gets its item in, the backpressure counter has gone up during that call.
C16_SuspendedSubmitAlwaysCounted ==
    [][(pp_sub.pc # "idle" /\ pp_sub'.pc = "idle" /\ pp_res'[pp_sub.item] = "ok")
          => pp_sub.pc = "second_send"]_vars

\* C17: with no shutdown signal, every item submit accepted is eventually
\* taken by the publish stage and ends published or marked failed, whatever
\* enable_enrich and enable_embed are and however long stages stalled.
C17_AcceptedItemsReachPublish ==
    \A i \in PpItems :
        (pp_res[i] = "ok") ~> (pp_done[i] \in {"published", "failed"})

\* With enrich disabled and embed enabled (router into the embed stage), the
\* producer was held up on the full fetch channel past the timer, and every
\* item has still gone through publish, one of them failing.
C17_Witness ==
    /\ ~pp_cfg.enable_enrich /\ pp_cfg.enable_embed
    /\ backpressure_events_total >= 1
    /\ \A i \in PpItems : pp_res[i] = "ok" /\ pp_done[i] \in {"published", "failed"}
    /\ \E i \in PpItems : pp_done[i] = "failed"
    /\ \E i \in PpItems : pp_done[i] = "published"

\* What holds of the bus and of the items PublishStage::process is done with.
PublishedAreCompleted ==
    /\ \A m \in pp_bus :
          /\ m.event.status = "completed"
          /\ m.event.processing_started_at # None
          /\ m.event.processing_completed_at # None
          /\ m.event.processing_completed_at[1] >= m.event.processing_started_at[1]
    /\ \A i \in PpItems :
          /\ pp_done[i] = "published" =>
                (pp_ev[i].status = "completed" /\ \E m \in pp_bus : m.id = i)
          /\ pp_done[i] = "failed" =>
                (pp_ev[i].status = "failed" /\ \A m \in pp_bus : m.id # i)

\* C18: an event on the bus has status completed and a completion stamp not
\* before its start stamp; an event goes pending -> processing (normalize)
\* -> completed (publish), and one whose publish failed for good ends as
\* failed, is not on the bus and never becomes completed again.
C18_CompletedOnBusFailedOtherwise ==
    [][/\ PublishedAreCompleted'
       /\ \A i \in PpItems :
             /\ (pp_ev'[i].status = "processing" /\ pp_ev[i].status # "processing")
                   => (pp_ev[i].status = "pending" /\ i \in pp_work'["normalize"])
             /\ (pp_ev'[i].status = "completed" /\ pp_ev[i].status # "completed")
                   => (pp_ev[i].status = "processing" /\ i \in pp_work'["publish"])
             /\ pp_ev[i].status = "failed" => pp_ev'[i].status = "failed"]_vars

\* One event is on the bus, completed later than it was started, and the
\* publish of another has failed for good.
C18_Witness ==
    /\ \E m \in pp_bus :
          /\ m.event.status = "completed"
          /\ m.event.processing_started_at # None
          /\ m.event.processing_completed_at # None
          /\ m.event.processing_completed_at[1] > m.event.processing_started_at[1]
    /\ \E i \in PpItems : pp_done[i] = "failed" /\ pp_ev[i].status = "failed"

\* C24: every item that was in a stage queue when shutdown was broadcast has
\* gone through the publish stage by the time every pool and the router
\* have stopped.
C24_QueuedItemsReachPublish ==
    (/\ pp_shutdown
     /\ \A p \in PpPools : pp_pool[p] \in {"absent", "stopped"})
        => \A i \in pp_at_signal : pp_done[i] # "no"

RECURSIVE SumOver(_, _)
SumOver(f, S) ==
    IF S = {} THEN 0
    ELSE LET x == CHOOSE y \in S : TRUE IN f[x] + SumOver(f, S \ {x})

\* Items accepted by a channel and not yet finished by publish or dropped.
LdInFlight ==
    SumOver(ld_q, PpQueues) + SumOver(ld_held, PpPools) + SumOver(ld_active, PpStages)

\* C36: the items inside the pipeline number at most the sum of
\* channel_capacity over the channels plus the active workers over the
\* stages, and the active workers of a stage never exceed its worker count.
C36_InFlightBounded ==
    /\ LdInFlight <= Cardinality(PpQueues) * channel_capacity
                        + SumOver(ld_active, PpStages)
    /\ \A s \in PpStages : ld_active[s] <= WorkerCount(s)

\* The stages spawn_workers wires for a configuration, in pipeline order.
EnabledOrder(cfg) ==
    <<"normalize">> \o (IF cfg.enable_enrich THEN <<"enrich">> ELSE <<>>)
                    \o (IF cfg.enable_embed THEN <<"embed">> ELSE <<>>)
                    \o <<"publish">>

IsPrefix(a, b) == Len(a) <= Len(b) /\ a = SubSeq(b, 1, Len(a))

\* C37: the stages that process an item are, in order, normalize, enrich iff
\* enable_enrich, embed iff enable_embed, publish: what an item has been
\* through is always a beginning of that list (each enabled stage once, no
\* disabled stage), an item publish has finished has been through all of it,
\* and publish forwards it to no channel.
C37_StagesInOrderOnce ==
    \A i \in PpItems :
        /\ IsPrefix(pp_trace[i], EnabledOrder(pp_cfg))
        /\ pp_done[i] # "no" =>
              /\ pp_trace[i] = EnabledOrder(pp_cfg)
              /\ \A q \in PpQueues : InQueue(q, i) = 0
              /\ \A s \in PpStages : i \notin pp_work[s]
              /\ pp_router # Some(i)

\* C37 witness: with enrich disabled and embed enabled the first item was
\* published after normalize, embed and publish, while the second has been
\* through normalize only.
C37_Witness ==
    /\ pp_done[1] = "published"
    /\ ~pp_cfg.enable_enrich /\ pp_cfg.enable_embed
    /\ pp_trace[1] = <<"normalize", "embed", "publish">>
    /\ pp_done[2] = "no" /\ pp_trace[2] = <<"normalize">>

(***************************************************************************)
(* Claims about the save policy, checked under SpecAutoSave                *)
(***************************************************************************)
\* C39: maybe_save() writes the checkpoint file exactly when the state is
\* dirty and at least auto_save_interval has passed since the last save;
\* save_on_shutdown() writes exactly when the state is dirty, whatever the
\* interval; a successful save clears dirty, sets last_save to now and puts
\* the state into the file; a failed save leaves dirty, last_save and the
\* file as they were, so the save call that follows it writes again (a
\* maybe_save after a failed save_on_shutdown only once the interval has
\* passed); a call that does not write changes nothing.
C39_SavePolicy ==
    [][ /\ as_call'.op = "maybe_save" =>
             (as_call'.wrote <=>
                 (as_dirty /\ as_now - as_last_save >= auto_save_interval))
        /\ as_call'.op = "save_on_shutdown" => (as_call'.wrote <=> as_dirty)
        /\ (as_call'.wrote /\ as_call'.ok) =>
             /\ as_dirty' = FALSE
             /\ as_last_save' = as_now
             /\ as_file' = as_state
        /\ (as_call'.op # "none" /\ ~(as_call'.wrote /\ as_call'.ok)) =>
             /\ as_dirty' = as_dirty
             /\ as_last_save' = as_last_save
             /\ as_file' = as_file
        /\ (/\ as_call.wrote /\ ~as_call.ok /\ as_call'.op # "none"
            /\ (as_call.op = "maybe_save" \/ as_call'.op = "save_on_shutdown")) =>
             as_call'.wrote
      ]_vars

\* A save has succeeded earlier, a later update made the state dirty again,
\* the interval passed and maybe_save's write failed: the file still holds
\* the older state and the manager is still dirty.
C39_Witness ==
    /\ as_call = SaveCall("maybe_save", TRUE, FALSE)
    /\ as_dirty
    /\ as_file > 0
    /\ as_file < as_state
    /\ as_last_save > 0

(***************************************************************************)
(* Claims about the resilient publisher, checked under SpecPublisher       *)
(***************************************************************************)

\* C38: for one event publish calls bus.publish at most max_retries + 1
\* times; the first answer with success = true ends the call with that
\* result and nothing is published after it; between attempts n and n + 1
\* it sleeps retry_delay * (n + 1); it returns an error only when all
\* max_retries + 1 attempts failed, and then the failure counter goes up by
\* exactly one.
C38_PublishRetriesThenFails ==
    /\ [](/\ rp_calls <= publisher_max_retries + 1
          /\ rp_waits = [n \in 1..Len(rp_waits) |-> retry_delay * n]
          /\ (rp_pc = "call" => Len(rp_waits) = rp_calls /\ rp_attempt = rp_calls)
          /\ (rp_result = "ok" => rp_pc = "idle" /\ Len(rp_waits) = rp_calls - 1)
          /\ (rp_result = "err" =>
                  /\ rp_calls = publisher_max_retries + 1
                  /\ Len(rp_waits) = publisher_max_retries)
          /\ publish_total.failure =
                  Cardinality({k \in 1..Len(rp_events) : rp_events[k] = "err"})
          /\ publish_total.success =
                  Cardinality({k \in 1..Len(rp_events) : rp_events[k] = "ok"}))
    /\ [][ /\ (rp_pc = "call" /\ rp_calls' = rp_calls + 1 /\ rp_result' = "none") =>
                  rp_pc' = "sleep" /\ rp_calls' <= publisher_max_retries
           /\ (rp_result' = "err" /\ rp_result # "err") =>
                  publish_total'.failure = publish_total.failure + 1
           /\ (rp_pc = "idle" /\ rp_pc' = "idle") => rp_calls' = rp_calls
      ]_vars

\* C38 witness: one event was published at the third attempt, after sleeps
\* of 100 and 200 ms; the next one failed at all four attempts and was
\* counted as one failure.
C38_Witness ==
    /\ rp_events = <<"ok", "err">>
    /\ rp_result = "err"
    /\ rp_calls = publisher_max_retries + 1
    /\ rp_waits = <<100, 200, 300>>
    /\ publish_total = [success |-> 1, failure |-> 1]

(***************************************************************************)
(* Claims about the checkpoint manager, checked under SpecCheckpoint       *)
(***************************************************************************)

\* C19: for each source, total_items_fetched is the sum of the batch counts
\* recorded, error_count the number of record_error calls since the last
\* record_success, last_error is empty right after a success, and cursor and
\* last_batch_count are those of the last success.
C19_CheckpointCounts ==
    \A src \in CkSources :
        LET cp == ck_sources[src]
        IN /\ cp.total_items_fetched = ck_sum[src]
           /\ cp.error_count = ck_errs[src]
           /\ cp.last_error = (ck_errs[src] > 0)
           /\ IF ck_last_success[src] = None
              THEN cp.cursor = None /\ cp.last_batch_count = 0
              ELSE /\ cp.cursor = ck_last_success[src][1].cursor
                   /\ cp.last_batch_count = ck_last_success[src][1].count

\* One source has had successes with a cursor and then two errors, the other
\* a success right after errors.
C19_Witness ==
    /\ ck_sum["newsapi"] >= 3 /\ ck_errs["newsapi"] = 2
    /\ ck_sources["newsapi"].cursor # None
    /\ ck_sources["newsapi"].last_batch_count = 1
    /\ ck_sum["x_api"] = 2 /\ ck_errs["x_api"] = 0
    /\ ck_last_success["x_api"] # None

\* C20: last_fetch_at of a source never decreases (and is never unset) over
\* the record_success and record_error calls.
C20_LastFetchNeverDecreases ==
    [][\A src \in CkSources :
          ck_last_fetch_at[src] # None =>
             /\ ck_last_fetch_at'[src] # None
             /\ ck_last_fetch_at'[src][1] >= ck_last_fetch_at[src][1]]_vars

\* A source stamped by a success at a later time has since recorded an
\* error; the other was created by an error at the earlier time.
C20_Witness ==
    /\ ck_now = MaxNow
    /\ ck_last_fetch_at["newsapi"] = Some(MaxNow)
    /\ ck_sum["newsapi"] >= 1 /\ ck_errs["newsapi"] >= 1
    /\ ck_last_fetch_at["x_api"] = Some(0)
    /\ ck_sum["x_api"] = 0 /\ ck_errs["x_api"] >= 1

\* C40: record_error leaves the watermark alone: for a source that has never
\* had a recorded success, get_since(source_id, default_window) is
\* now - default_window, however many record_error calls were made.
C40_ErrorsLeaveWatermark ==
    \A src \in CkSources, w \in DefaultWindows :
        ck_last_success[src] = None =>
            GetSince(ck_last_fetch_at[src], ck_now, w) = ck_now - w

(***************************************************************************)
(* Claims about the checkpoint file, checked under SpecCheckpointFile      *)
(***************************************************************************)

\* C21: whatever step of save() the process crashes at, checkpoint.json holds
\* what it held before the save or the whole new document, never a part of
\* one; a document put there by save() parses; and the state new() builds is
\* the parsed file, or an empty state when the file is missing or does not
\* parse.
C21_CanonicalFileOldOrNew ==
    /\ cf_fs[FilePath] = cf_committed
    /\ (cf_committed # cf_installed =>
            cf_committed.exists /\ ParseOk(cf_committed.data))
    /\ (cf_loaded =>
            /\ cf_pc \notin {"none", "down"}
            /\ IF cf_committed.exists /\ ParseOk(cf_committed.data)
                  THEN cf_state = Parse(cf_committed.data)
                  ELSE /\ cf_state.sources = DefaultState(0).sources
                       /\ cf_state.last_fetch_at = DefaultState(0).last_fetch_at)

\* C21 witness: the service started on a file that does not parse, saved a
\* state of its own, crashed inside a later save after part of the temporary
\* file was written, and was started again from the file of the first save.
C21_Witness ==
    /\ cf_loaded
    /\ cf_restarts = 2
    /\ cf_installed.exists
    /\ ~ParseOk(cf_installed.data)
    /\ cf_committed # cf_installed
    /\ cf_fs[TempPath].exists
    /\ Len(cf_fs[TempPath].data) > 0
    /\ ~ParseOk(cf_fs[TempPath].data)
    /\ \E src \in CkSources : cf_state.sources[src].exists

\* The fields of two checkpoint states that a reader of the file relies on.
SameCheckpoint(a, b) ==
    /\ a.session_id = b.session_id
    /\ \A src \in CkSources :
          /\ a.sources[src].exists = b.sources[src].exists
          /\ a.sources[src].cursor = b.sources[src].cursor
          /\ a.sources[src].total_items_fetched = b.sources[src].total_items_fetched
          /\ a.sources[src].last_batch_count = b.sources[src].last_batch_count
          /\ a.sources[src].error_count = b.sources[src].error_count
          /\ a.sources[src].last_error = b.sources[src].last_error
          /\ a.last_fetch_at[src] = b.last_fetch_at[src]

\* C22: writing a state and reading it back gives the same cursor,
\* total_items_fetched, last_batch_count, error_count, last_error and
\* last_fetch_at for every source and the same session_id: for the state the
\* manager holds, and for the state a new manager loads after a finished save.
C22_SaveLoadRoundTrip ==
    /\ (cf_pc # "down" =>
            /\ ParseOk(Serialize(cf_state))
            /\ SameCheckpoint(Parse(Serialize(cf_state)), cf_state))
    /\ (cf_loaded /\ cf_last_save # None =>
            SameCheckpoint(cf_state, cf_last_save[1]))

\* C22 witness: a new manager loaded a saved state with a cursor, a count and
\* a timestamp.
C22_Witness ==
    /\ cf_loaded
    /\ cf_restarts = 2
    /\ cf_last_save # None
    /\ \E src \in CkSources :
          /\ cf_state.sources[src].cursor = Some(2)
          /\ cf_state.sources[src].total_items_fetched = 1
          /\ cf_state.last_fetch_at[src] = Some(MaxNow)
    /\ cf_state.session_id = 1

(***************************************************************************)
(* Claims about shutdown, checked under SpecShutdown / FairSpecShutdown    *)
(***************************************************************************)

\* C23: once shutdown() has returned and every task of run_continuous has
\* stopped, the checkpoint is not dirty and the file reflects every
\* record_success and record_error that was applied.
C23_NothingUnsavedAfterShutdown ==
    (/\ sd_mode = "daemon"
     /\ sd_handler = "done"
     /\ \A t \in SdTasks : sd_task[t].pc = "stopped")
        => (~sd_dirty /\ sd_file = sd_mem)

\* C25: after Ctrl-C or SIGTERM, in daemon mode and in pipeline mode, the
\* process eventually terminates.
C25_TerminatesAfterSignal ==
    sd_signal ~> (sd_proc = "terminated")

\* C30: no harvester task calls source.fetch once shutdown() has set
\* running = false.
C30_NoFetchAfterRunningFalse ==
    ~sd_late_fetch

(***************************************************************************)
(* Claims about the service, checked under Spec / FairSpec                 *)
(***************************************************************************)

\* C1: a record the source returns more than once is published to the bus
\* at most once, and once everything fetched has gone through the
\* pipeline a record that was returned twice and published has been
\* counted in dedup_hits_total.
C1_PublishedOncePerRecord ==
    \A r \in Records :
        /\ published[r] <= 1
        /\ (returned[r] >= 2 /\ published[r] >= 1 /\ hv_pc = "idle" /\ queue = <<>>)
              => dedup_hits_total >= 1

\* C2: an event is handed to pipeline.submit only after its append-log
\* write, and the checkpoint is moved past an event only after that event
\* was submitted.
C2_LogBeforeSubmitBeforeCheckpoint ==
    /\ submitted \subseteq append_log
    /\ checkpoint.past \subseteq submitted

\* C3: no event is skipped as a duplicate, and no checkpoint is moved past
\* it, unless the append log holds an entry for it.
C3_NoSuppressionWithoutLogEntry ==
    /\ suppressed \subseteq append_log
    /\ checkpoint.past \subseteq append_log

\* C7: once the breaker is open and the source answers every request 200,
\* the breaker eventually is Closed and stays Closed.
C7_BreakerRecoversUnderHealthySource ==
    [](  (cb.state = "Open" /\ upstream = "healthy")
      => <>[](cb.state = "Closed"))

\* C26: in the periodic harvester a failed cycle counts as one failure of
\* the breaker, so the breaker leaves Closed for Open exactly when the
\* failure_threshold-th failed cycle in a row is recorded.
C26_OpensOnThresholdFailedCycle ==
    [][ (mode = "daemon" /\ mode' = "daemon"
            /\ cb.state = "Closed" /\ cb'.state = "Open")
        => failed_cycles' = failure_threshold ]_vars

\* C27: a cycle in which append_log.append failed does not end in
\* record_success.
C27_NoRecordSuccessAfterFailedAppend ==
    [][ (mode' = mode /\ hv_pc = "record" /\ hv_pc' # "record")
        => ~append_failed ]_vars

\* C28: a cycle whose source.fetch failed does not end before
\* checkpoint.record_error and cb.record_failure were called, in the
\* periodic harvester and in harvest_source alike.
C28_FailedFetchIsRecorded ==
    (mode # "none" /\ last_fetch = "err") => hv_pc = "failed"

\* C29: the cursor handed to source.fetch is the cursor the last
\* record_success stored for the source.
C29_FetchResumesFromStoredCursor ==
    (mode \in {"daemon", "once"} /\ last_fetch # "none")
        => sent_cursor = checkpoint.cursor

====
